---- MODULE Spec2Model ----
(***************************************************************************)
(* Model of src/lib/speak.ts: text -> (rewrite) -> synth -> chunked        *)
(* streaming to a sink, with cooperative cancellation.                     *)
(*                                                                         *)
(* The repository holds two versions of speak.ts:                          *)
(*   - function speak(options) -> {stop, promise}   (lines 1..135)         *)
(*   - class Speaker { speak, stop, ... }           (lines 137..326)       *)
(* harness.api says which version is loaded.                               *)
(*                                                                         *)
(* Steps follow JavaScript's run-to-completion: one action is the code     *)
(* that runs from one await (or the call) to the next await.               *)
(*                                                                         *)
(* An audio buffer is given by its length L; a chunk audioData.slice(a,b)  *)
(* is the record [from |-> a, to |-> b] of the byte offsets it carries, so *)
(* gaps, overlaps and repetitions are visible whatever the bytes are.      *)
(***************************************************************************)
EXTENDS Integers, Sequences, FiniteSets, TLC

\* ------------------------------------------------------------ constants
CHUNK_SIZE_MS == 320
BYTES_PER_MS == 32
CHUNK_SIZE_BYTES == CHUNK_SIZE_MS * BYTES_PER_MS

\* --------------------------------------------------------------- bounds
\* Buffers hold at most MaxChunks full chunks.
MaxChunks == 3

\* Invocations of Speaker.speak on the one Speaker instance.
MaxCalls == 2
Calls == 1..MaxCalls

\* Buffer lengths the provider may return: every chunk count 0..MaxChunks,
\* with an empty, a one-byte, an almost-full and a full last chunk.
Lengths ==
  {k * CHUNK_SIZE_BYTES + r : k \in 0..(MaxChunks - 1), r \in {0, 1, CHUNK_SIZE_BYTES - 1}}
    \cup {MaxChunks * CHUNK_SIZE_BYTES}

\* Texts are sequences of characters; <<>> is the empty string.
Texts == {<< >>, <<"H", "i">>}

\* Values a rejected promise (or a throw) may carry.
Thrown == {"Error", "null"}

\* The rewriters setRewriter can install: the default (identity) and a
\* custom one (the tests' prefixing rewriter, which may also reject).
Rewriters == {"default", "custom"}

\* What is run:
\*  - function speak(), one invocation, any request, any provider result;
\*  - class Speaker, one invocation, any request, any provider result;
\*  - class Speaker, up to MaxCalls overlapping invocations of plain requests
\*    (text "Hi", no rewrite) against a provider mocked as in speak.test.ts
\*    with one configured buffer (mockResolvedValue(new Uint8Array(n))).
Harnesses ==
  {[api |-> "function", overlap |-> FALSE, mockLen |-> -1],
   [api |-> "class", overlap |-> FALSE, mockLen |-> -1]}
    \cup {[api |-> "class", overlap |-> TRUE, mockLen |-> n] : n \in Lengths}

VARIABLES
  harness,       \* what is run, see Harnesses
  rewriter,      \* module-level `rewriter`
  \* --- closure of one speak() call (function version)
  pc,            \* "idle" | "rewriting" | "synth" | "race" | "sink" | "rejected"
                 \* | "settled"
  options,       \* [text, rewrite]
  isStopped,     \* let isStopped
  stopResolved,  \* stopPromise has been resolved (resolveStopped() ran)
  audioLen,      \* audioData.length (-1 before synth resolved)
  position,      \* streamAudio's position
  sinkLog,       \* chunks handed to options.streamTo, in call order
  acked,         \* number of sink calls whose promise resolved
  inflight,      \* number of sink calls whose promise is pending
  rewriterCalls, \* texts passed to rewriter.rewriteWithinGuardrails
  synthArgs,     \* texts passed to tts.synth
  onStartCalls,  \* number of options.onStart invocations
  onDoneCalls,   \* number of options.onDone invocations
  onErrorArgs,   \* arguments of the options.onError invocations
  promise,       \* "none" | "pending" | "resolved" | "rejected"
  \* --- history (not in the code): what the environment did
  stopCalled,    \* the caller invoked stop() before the invocation settled
  failure,       \* "none" | "config" | "rewriter" | "synth" | "sink"
  deliveredAtStop, \* Len(sinkLog) when stop() was first called, -1 if never
  onDoneThrew,   \* the onDone callback threw
  onErrorThrew,  \* the onError callback threw
  pending,       \* the rejection processText is about to catch, see NoRejection
  \* --- class version
  speaker,       \* the fields of the Speaker instance
  calls,         \* calls[i]: the i-th invocation of Speaker.speak, see IdleCall
  errorCbArgs,   \* arguments of the onErrorCallback invocations
  \* --- tts.ts: HttpCoquiTTS and the module-level cache
  scenario,      \* what is run against the cache, see Scenarios
  now,           \* the clock, in ms
  ttsCache,      \* the entries of ttsCache, most recently used first
  synthCalls,    \* synthCalls[c]: a call of HttpCoquiTTS.synth, see IdleSynth
  fillers,       \* number of filler texts requested so far (scenario "fill")
  \* --- history (not in the code)
  lastOk,        \* [req, audio] of the latest successful synth per request
  \* --- tts.ts: makeTTS and the providers
  env,           \* process.env: the settings tts.ts reads, see Envs
  tts,           \* what makeTTS() gave: a provider or the error thrown, see NoTTS
  engineCall,    \* the call of synth on an AzureTTS or CoquiLocalTTS provider
  \* --- ssml.ts: sanitizeForTTS applied to a text, and again to its result
  rawText,       \* the text passed to sanitizeForTTS
  outputs,       \* what sanitizeForTTS returned: for rawText, then for that result
  \* --- tts.ts: AzureTTS.escapeXml applied to a text
  unsafeText,    \* the text passed to escapeXml
  escaped,       \* << >>, or the one-element sequence of what escapeXml returned
  \* --- two invocations of function speak() running interleaved
  invocations    \* invocations[i]: the closure of invocation i, see IdleInvocation

fnVars == <<pc, options, isStopped, stopResolved, audioLen, position, sinkLog,
            acked, inflight, rewriterCalls, synthArgs, onStartCalls,
            onDoneCalls, onErrorArgs, promise, stopCalled, failure,
            deliveredAtStop, onDoneThrew, onErrorThrew, pending>>

classVars == <<speaker, calls, errorCbArgs>>

cacheVars == <<scenario, now, ttsCache, synthCalls, fillers, lastOk>>

speakVars == <<harness, rewriter, fnVars, classVars>>

providerVars == <<env, tts, engineCall>>

ssmlVars == <<rawText, outputs>>

xmlVars == <<unsafeText, escaped>>

pairVars == <<invocations>>

vars == <<speakVars, cacheVars, providerVars, ssmlVars, xmlVars, pairVars>>

\* -------------------------------------------------------------- helpers
Min(a, b) == IF a < b THEN a ELSE b

\* Mutation of ToError: the caught value is passed on as it is.
ToError_Identity(error) == error

\* error instanceof Error ? error : new Error(String(error))
ToError(error) == IF error = "Error" THEN "Error" ELSE "Error(String)"

\* Mutation of ChunkEnd: the end of the buffer is not taken into account.
ChunkEnd_NoClamp(pos, totalLength) == pos + CHUNK_SIZE_BYTES

\* const chunkEnd = Math.min(position + CHUNK_SIZE_BYTES, totalLength)
ChunkEnd(pos, totalLength) == Min(pos + CHUNK_SIZE_BYTES, totalLength)

\* Mutation of Slice: every chunk starts at the start of the buffer.
Slice_FromStart(pos, end) == [from |-> 0, to |-> end]

\* const chunk = audioData.slice(position, chunkEnd)
Slice(pos, end) == [from |-> pos, to |-> end]

\* rewriter.rewriteWithinGuardrails(text) of the rewriter r, when it resolves
RewriteWithinGuardrails(r, text) ==
  IF r = "default" THEN text ELSE <<"rewritten:">> \o text

\* setRewriter: rewriter = newRewriter || defaultRewriter
SetRewriterValue(newRewriter) ==
  IF newRewriter = "null" THEN "default" ELSE newRewriter


\* ---------------------------------------------- function speak(): closure
\* const stop = () => { if (isStopped) return; isStopped = true; resolveStopped(); }
\* on the pair st = [isStopped, stopResolved]
Stop(st) ==
  IF st.isStopped THEN st ELSE [isStopped |-> TRUE, stopResolved |-> TRUE]

StopState == [isStopped |-> isStopped, stopResolved |-> stopResolved]

\* Mutation of ShouldStop: the race never sees the stop signal.
ShouldStop_Never(stopFired) == FALSE

\* Promise.race([stopRace, timer(10)]): stopRace is resolved in the microtasks
\* that follow stop(), so it wins exactly when stopPromise has been resolved
\* before the timer's callback runs.
ShouldStop(stopFired) == stopFired

\* Mutation of CatchFinally: the error is reported whether or not the
\* invocation has been stopped.
CatchFinally_IgnoresStop(error, onErrorThrows) ==
  /\ onErrorArgs' = Append(onErrorArgs, ToError(error))
  /\ onErrorThrew' = (onErrorThrew \/ onErrorThrows)
  /\ promise' = IF onErrorThrows THEN "rejected" ELSE "resolved"
  /\ isStopped' = TRUE
  /\ stopResolved' = TRUE
  /\ pc' = "settled"

\* catch (error) { if (!isStopped) options.onError?.(toError(error)) }
\* finally { stop() }; the promise of processText rejects only if the
\* catch block itself throws, i.e. if onError throws.
CatchFinally(error, onErrorThrows) ==
  /\ onErrorArgs' = IF isStopped THEN onErrorArgs
                    ELSE Append(onErrorArgs, ToError(error))
  /\ onErrorThrew' = (onErrorThrew \/ (~isStopped /\ onErrorThrows))
  /\ promise' = IF ~isStopped /\ onErrorThrows THEN "rejected" ELSE "resolved"
  /\ isStopped' = Stop(StopState).isStopped
  /\ stopResolved' = Stop(StopState).stopResolved
  /\ pc' = "settled"

\* Mutation of AfterStream: onDone is invoked whether or not the invocation
\* has been stopped.
AfterStream_IgnoresStop(onDoneThrows, thrown, onErrorThrows) ==
  /\ onDoneCalls' = onDoneCalls + 1
  /\ onDoneThrew' = (onDoneThrew \/ onDoneThrows)
  /\ IF onDoneThrows
       THEN CatchFinally(thrown, onErrorThrows)
       ELSE /\ UNCHANGED <<onErrorArgs, onErrorThrew>>
            /\ promise' = "resolved"
            /\ isStopped' = Stop(StopState).isStopped
            /\ stopResolved' = Stop(StopState).stopResolved
            /\ pc' = "settled"

\* streamAudio returned normally:
\*   if (!isStopped) options.onDone?.(metrics)   -- may throw into the catch
\*   finally { stop() }
AfterStream(onDoneThrows, thrown, onErrorThrows) ==
  IF isStopped
    THEN /\ UNCHANGED <<onDoneCalls, onDoneThrew, onErrorArgs, onErrorThrew>>
         /\ promise' = "resolved"
         /\ isStopped' = Stop(StopState).isStopped
         /\ stopResolved' = Stop(StopState).stopResolved
         /\ pc' = "settled"
    ELSE /\ onDoneCalls' = onDoneCalls + 1
         /\ onDoneThrew' = (onDoneThrew \/ onDoneThrows)
         /\ IF onDoneThrows
              THEN CatchFinally(thrown, onErrorThrows)
              ELSE /\ UNCHANGED <<onErrorArgs, onErrorThrew>>
                   /\ promise' = "resolved"
                   /\ isStopped' = Stop(StopState).isStopped
                   /\ stopResolved' = Stop(StopState).stopResolved
                   /\ pc' = "settled"

\* const tts = makeTTS(); const audioData = await tts.synth(finalText, locale)
\* makeTTS() throws on a bad provider configuration (configOk = FALSE).
CallSynth(finalText, configOk, thrown, onErrorThrows) ==
  IF configOk
    THEN /\ synthArgs' = Append(synthArgs, finalText)
         /\ pc' = "synth"
         /\ failure' = failure
         /\ promise' = "pending"
         /\ UNCHANGED <<onErrorArgs, onErrorThrew, isStopped, stopResolved>>
    ELSE /\ synthArgs' = synthArgs
         /\ failure' = "config"
         /\ CatchFinally(thrown, onErrorThrows)

\* speak(options): onStart, then processText() up to its first await.
Speak(text, rewrite) ==
  /\ harness.api = "function"
  /\ pc = "idle"
  /\ options' = [text |-> text, rewrite |-> rewrite]
  /\ onStartCalls' = onStartCalls + 1
  /\ IF rewrite
       THEN /\ rewriterCalls' = Append(rewriterCalls, [by |-> rewriter, text |-> text])
            /\ pc' = "rewriting"
            /\ promise' = "pending"
            /\ UNCHANGED <<synthArgs, failure, onErrorArgs, onErrorThrew, isStopped, stopResolved>>
       ELSE /\ rewriterCalls' = rewriterCalls
            /\ \E configOk \in BOOLEAN, thrown \in Thrown, onErrorThrows \in BOOLEAN :
                 CallSynth(text, configOk, thrown, onErrorThrows)
  /\ UNCHANGED <<cacheVars, providerVars, ssmlVars, xmlVars, pairVars, classVars, harness, rewriter, audioLen, position, sinkLog, acked, inflight,
                 onDoneCalls, onDoneThrew, stopCalled, deliveredAtStop, pending>>

\* The caller invokes the returned stop().
CallStop ==
  /\ harness.api = "function"
  /\ pc # "idle"
  /\ isStopped' = Stop(StopState).isStopped
  /\ stopResolved' = Stop(StopState).stopResolved
  /\ stopCalled' = (stopCalled \/ pc # "settled")
  /\ deliveredAtStop' = IF pc # "settled" /\ ~stopCalled THEN Len(sinkLog)
                        ELSE deliveredAtStop
  /\ UNCHANGED <<cacheVars, providerVars, ssmlVars, xmlVars, pairVars, classVars, harness, rewriter, pc, options, audioLen, position, sinkLog, acked,
                 inflight, rewriterCalls, synthArgs, onStartCalls, onDoneCalls, onDoneThrew,
                 onErrorArgs, onErrorThrew, promise, failure, pending>>

\* Mutation of RewriterResolve: the rewriter's result is dropped and synth
\* gets the original text.
RewriterResolve_KeepsOriginal ==
  /\ harness.api = "function"
  /\ pc = "rewriting"
  /\ \E configOk \in BOOLEAN, thrown \in Thrown, onErrorThrows \in BOOLEAN :
       CallSynth(options.text, configOk, thrown, onErrorThrows)
  /\ UNCHANGED <<cacheVars, providerVars, ssmlVars, xmlVars, pairVars, classVars, harness, rewriter, options, audioLen, position, sinkLog, acked,
                 inflight, rewriterCalls, onStartCalls, onDoneCalls, onDoneThrew, stopCalled,
                 deliveredAtStop, pending>>

\* finalText = await rewriter.rewriteWithinGuardrails(finalText) resolves.
RewriterResolve ==
  /\ harness.api = "function"
  /\ pc = "rewriting"
  /\ LET call == rewriterCalls[Len(rewriterCalls)]
         finalText == RewriteWithinGuardrails(call.by, call.text)
     IN \E configOk \in BOOLEAN, thrown \in Thrown, onErrorThrows \in BOOLEAN :
          CallSynth(finalText, configOk, thrown, onErrorThrows)
  /\ UNCHANGED <<cacheVars, providerVars, ssmlVars, xmlVars, pairVars, classVars, harness, rewriter, options, audioLen, position, sinkLog, acked,
                 inflight, rewriterCalls, onStartCalls, onDoneCalls, onDoneThrew, stopCalled,
                 deliveredAtStop, pending>>

\* A promise awaited by processText rejects with `thrown`. The catch block
\* runs in a later microtask: code that runs in between (the rest of the job
\* that rejected the promise, reactions queued before) may still call stop().
\* stopped records whether stop() had been called when the rejection
\* happened.
NoRejection == [kind |-> "none", thrown |-> "null", stopped |-> FALSE]

Reject(kind, thrown) ==
  /\ pending' = [kind |-> kind, thrown |-> thrown, stopped |-> isStopped]
  /\ pc' = "rejected"
  /\ UNCHANGED <<failure, onErrorArgs, onErrorThrew, promise, isStopped, stopResolved>>

\* ... or rejects (only a custom rewriter can: the default is Promise.resolve).
RewriterReject(thrown) ==
  /\ harness.api = "function"
  /\ pc = "rewriting"
  /\ rewriterCalls[Len(rewriterCalls)].by = "custom"
  /\ Reject("rewriter", thrown)
  /\ UNCHANGED <<cacheVars, providerVars, ssmlVars, xmlVars, pairVars, classVars, harness, rewriter, options, audioLen, position, sinkLog, acked,
                 inflight, rewriterCalls, synthArgs, onStartCalls, onDoneCalls, onDoneThrew,
                 stopCalled, deliveredAtStop>>

\* processText resumes in its catch block with the pending rejection.
CatchRejection ==
  /\ harness.api = "function"
  /\ pc = "rejected"
  /\ failure' = pending.kind
  /\ \E onErrorThrows \in BOOLEAN : CatchFinally(pending.thrown, onErrorThrows)
  /\ UNCHANGED <<cacheVars, providerVars, ssmlVars, xmlVars, pairVars, classVars, harness, rewriter, options, audioLen, position, sinkLog, acked,
                 inflight, rewriterCalls, synthArgs, onStartCalls, onDoneCalls, onDoneThrew,
                 stopCalled, deliveredAtStop, pending>>

\* streamAudio(audioData, ...) from its loop test on: either the next
\* iteration starts its race (pc = "race"), or the loop is over and
\* processText goes on after `await streamAudio(...)`.
StreamLoop(pos, totalLength) ==
  IF pos < totalLength
    THEN /\ pc' = "race"
         /\ UNCHANGED <<onDoneCalls, onDoneThrew, onErrorArgs, onErrorThrew, promise, isStopped, stopResolved>>
    ELSE \E onDoneThrows \in BOOLEAN, thrown \in Thrown, onErrorThrows \in BOOLEAN :
           AfterStream(onDoneThrows, thrown, onErrorThrows)

\* await tts.synth(...) resolves with a buffer of length len.
SynthResolve(len) ==
  /\ harness.api = "function"
  /\ pc = "synth"
  /\ audioLen' = len
  /\ position' = 0
  /\ StreamLoop(0, len)
  /\ UNCHANGED <<cacheVars, providerVars, ssmlVars, xmlVars, pairVars, classVars, harness, rewriter, options, sinkLog, acked, inflight, rewriterCalls,
                 synthArgs, onStartCalls, stopCalled, failure, deliveredAtStop, pending>>

\* await tts.synth(...) rejects.
SynthReject(thrown) ==
  /\ harness.api = "function"
  /\ pc = "synth"
  /\ Reject("synth", thrown)
  /\ UNCHANGED <<cacheVars, providerVars, ssmlVars, xmlVars, pairVars, classVars, harness, rewriter, options, audioLen, position, sinkLog, acked,
                 inflight, rewriterCalls, synthArgs, onStartCalls, onDoneCalls, onDoneThrew,
                 stopCalled, deliveredAtStop>>

\* Mutation of RaceStop: the chunk the stop signal kept from the sink is
\* counted as delivered.
RaceStop_Advances ==
  /\ harness.api = "function"
  /\ pc = "race"
  /\ ShouldStop(stopResolved)
  /\ position' = ChunkEnd(position, audioLen)
  /\ \E onDoneThrows \in BOOLEAN, thrown \in Thrown, onErrorThrows \in BOOLEAN :
       AfterStream(onDoneThrows, thrown, onErrorThrows)
  /\ UNCHANGED <<cacheVars, providerVars, ssmlVars, xmlVars, pairVars, classVars, harness, rewriter, options, audioLen, sinkLog, acked,
                 inflight, rewriterCalls, synthArgs, onStartCalls, stopCalled,
                 failure, deliveredAtStop, pending>>

\* The race of one iteration is won by the stop signal: break.
RaceStop ==
  /\ harness.api = "function"
  /\ pc = "race"
  /\ ShouldStop(stopResolved)
  /\ \E onDoneThrows \in BOOLEAN, thrown \in Thrown, onErrorThrows \in BOOLEAN :
       AfterStream(onDoneThrows, thrown, onErrorThrows)
  /\ UNCHANGED <<cacheVars, providerVars, ssmlVars, xmlVars, pairVars, classVars, harness, rewriter, options, audioLen, position, sinkLog, acked,
                 inflight, rewriterCalls, synthArgs, onStartCalls, stopCalled,
                 failure, deliveredAtStop, pending>>

\* Mutation of RaceTimer: onChunk(chunk) is called without await, and the
\* loop goes on at once.
RaceTimer_NoAwait ==
  /\ harness.api = "function"
  /\ pc = "race"
  /\ ~ShouldStop(stopResolved)
  /\ position < audioLen
  /\ sinkLog' = Append(sinkLog, Slice(position, ChunkEnd(position, audioLen)))
  /\ inflight' = inflight + 1
  /\ position' = ChunkEnd(position, audioLen)
  /\ pc' = "race"
  /\ UNCHANGED <<cacheVars, providerVars, ssmlVars, xmlVars, pairVars, classVars, harness, rewriter, options, isStopped, stopResolved,
                 audioLen, acked, rewriterCalls, synthArgs, onStartCalls,
                 onDoneCalls, onDoneThrew, onErrorArgs, onErrorThrew, promise,
                 stopCalled, failure, deliveredAtStop, pending>>

\* The race is won by the 10 ms timer: onChunk(chunk) is called.
RaceTimer ==
  /\ harness.api = "function"
  /\ pc = "race"
  /\ ~ShouldStop(stopResolved)
  /\ sinkLog' = Append(sinkLog, Slice(position, ChunkEnd(position, audioLen)))
  /\ inflight' = inflight + 1
  /\ pc' = "sink"
  /\ UNCHANGED <<cacheVars, providerVars, ssmlVars, xmlVars, pairVars, classVars, harness, rewriter, options, isStopped, stopResolved, audioLen,
                 position, acked, rewriterCalls, synthArgs, onStartCalls,
                 onDoneCalls, onDoneThrew, onErrorArgs, onErrorThrew, promise, stopCalled, failure,
                 deliveredAtStop, pending>>

\* await onChunk(chunk) resolves: position = chunkEnd, next iteration.
SinkResolve ==
  /\ harness.api = "function"
  /\ pc = "sink"
  /\ inflight' = inflight - 1
  /\ acked' = acked + 1
  /\ position' = ChunkEnd(position, audioLen)
  /\ StreamLoop(ChunkEnd(position, audioLen), audioLen)
  /\ UNCHANGED <<cacheVars, providerVars, ssmlVars, xmlVars, pairVars, classVars, harness, rewriter, options, audioLen, sinkLog, rewriterCalls,
                 synthArgs, onStartCalls, stopCalled, failure, deliveredAtStop, pending>>

\* Mutation of SinkReject: the rejection is caught inside the loop, reported,
\* and the loop goes on with the next chunk.
SinkReject_Continue(thrown) ==
  /\ harness.api = "function"
  /\ pc = "sink"
  /\ inflight' = inflight - 1
  /\ failure' = "sink"
  /\ position' = ChunkEnd(position, audioLen)
  /\ IF ChunkEnd(position, audioLen) < audioLen
       THEN /\ pc' = "race"
            /\ onErrorArgs' = Append(onErrorArgs, ToError(thrown))
            /\ UNCHANGED <<onDoneCalls, onDoneThrew, onErrorThrew, promise,
                           isStopped, stopResolved>>
       ELSE /\ onErrorArgs' = Append(onErrorArgs, ToError(thrown))
            /\ onDoneCalls' = onDoneCalls + 1
            /\ promise' = "resolved"
            /\ isStopped' = TRUE
            /\ stopResolved' = TRUE
            /\ pc' = "settled"
            /\ UNCHANGED <<onDoneThrew, onErrorThrew>>
  /\ UNCHANGED <<cacheVars, providerVars, ssmlVars, xmlVars, pairVars, classVars, harness, rewriter, options, audioLen, sinkLog, acked,
                 rewriterCalls, synthArgs, onStartCalls, stopCalled,
                 deliveredAtStop, pending>>

\* await onChunk(chunk) rejects: the error leaves streamAudio.
SinkReject(thrown) ==
  /\ harness.api = "function"
  /\ pc = "sink"
  /\ inflight' = inflight - 1
  /\ Reject("sink", thrown)
  /\ UNCHANGED <<cacheVars, providerVars, ssmlVars, xmlVars, pairVars, classVars, harness, rewriter, options, audioLen, position, sinkLog, acked,
                 rewriterCalls, synthArgs, onStartCalls, onDoneCalls, onDoneThrew, stopCalled,
                 deliveredAtStop>>

\* setRewriter(newRewriter), at any time.
SetRewriter(newRewriter) ==
  /\ ~harness.overlap
  /\ rewriter' = SetRewriterValue(newRewriter)
  /\ rewriter' # rewriter
  /\ UNCHANGED <<cacheVars, providerVars, ssmlVars, xmlVars, pairVars, harness, fnVars, classVars>>

\* ------------------------------ function speak(): two invocations at once
\* Two calls of speak() whose processing is interleaved. Everything an
\* invocation works on is a local of its call of speak() or of streamAudio
\* (isStopped, stopPromise, position; lines 36..42, 105..110), so each has a
\* closure of its own: the record invocations[i]. The requests are plain
\* (rewrite off, makeTTS() succeeds), each with its own sink and callbacks.
Invocations == {"A", "B"}

\* Buffer lengths the provider returns here: no chunk, one full chunk, two.
PairLengths == {0, CHUNK_SIZE_BYTES, CHUNK_SIZE_BYTES + 1}

IdleInvocation ==
  [pc |-> "idle",          \* as pc: "idle" | "synth" | "race" | "sink"
                           \* | "rejected" | "settled"
   isStopped |-> FALSE, stopResolved |-> FALSE,
   audioLen |-> -1, position |-> 0,
   sinkLog |-> << >>, acked |-> 0,
   onDoneCalls |-> 0, onErrorArgs |-> << >>,
   promise |-> "none",
   thrown |-> "null",      \* what the promise awaited last rejected with
   \* history
   stopCalled |-> FALSE,   \* the caller invoked this invocation's stop()
   failure |-> "none",     \* "none" | "synth" | "sink" | "onDone"
   peerEvents |-> {}]      \* what happened to the other invocation while this
                           \* one was in progress: "stop", "failure"

\* Mutation of StopOf: isStopped and the stop promise are shared by all
\* invocations, as module-level variables would be.
StopOf_Shared(i, closures) ==
  [j \in DOMAIN closures |->
     IF closures[j].pc = "idle" THEN closures[j]
     ELSE [closures[j] EXCEPT !.isStopped = TRUE, !.stopResolved = TRUE]]

\* The stop function of invocation i is called (by the caller, or by the
\* finally of processText): it tests and sets the isStopped of its own
\* closure and resolves its own stopPromise.
StopOf(i, closures) ==
  [closures EXCEPT ![i] =
     [@ EXCEPT !.isStopped = Stop([isStopped |-> @, stopResolved |-> closures[i].stopResolved]).isStopped,
               !.stopResolved = Stop([isStopped |-> closures[i].isStopped, stopResolved |-> @]).stopResolved]]

InProgress(c) == c.pc \notin {"idle", "settled"}

\* History only: invocation i has seen the event; the others in progress
\* note it.
NotePeers(i, event, closures) ==
  [j \in DOMAIN closures |->
     IF j # i /\ InProgress(closures[j])
       THEN [closures[j] EXCEPT !.peerEvents = @ \cup {event}]
       ELSE closures[j]]

\* The catch block of processText for the closure c, before the finally.
Caught(c, error, onErrorThrows) ==
  [c EXCEPT !.onErrorArgs = IF c.isStopped THEN @ ELSE Append(@, ToError(error)),
            !.promise = IF ~c.isStopped /\ onErrorThrows THEN "rejected" ELSE "resolved",
            !.pc = "settled"]

\* processText after `await streamAudio(...)` returned, before the finally.
Streamed(c, onDoneThrows, thrown, onErrorThrows) ==
  IF c.isStopped
    THEN [c EXCEPT !.promise = "resolved", !.pc = "settled"]
    ELSE LET d == [c EXCEPT !.onDoneCalls = @ + 1]
         IN IF onDoneThrows
              THEN Caught([d EXCEPT !.failure = "onDone"], thrown, onErrorThrows)
              ELSE [d EXCEPT !.promise = "resolved", !.pc = "settled"]

\* speak(options) of invocation i, up to `await tts.synth(...)`.
PairSpeak(i) ==
  /\ harness.api = "pair"
  /\ invocations[i].pc = "idle"
  /\ invocations' = [invocations EXCEPT ![i].pc = "synth", ![i].promise = "pending"]
  /\ UNCHANGED <<speakVars, cacheVars, providerVars, ssmlVars, xmlVars>>

\* The caller of invocation i calls the stop() it got.
PairStop(i) ==
  /\ harness.api = "pair"
  /\ InProgress(invocations[i])
  /\ ~invocations[i].stopCalled
  /\ invocations' = StopOf(i, NotePeers(i, "stop",
                       [invocations EXCEPT ![i].stopCalled = TRUE]))
  /\ UNCHANGED <<speakVars, cacheVars, providerVars, ssmlVars, xmlVars>>

\* streamAudio of invocation i from its loop test on, for the closure c, and
\* the finally of processText when the loop is over.
PairLoop(i, c) ==
  IF c.position < c.audioLen
    THEN invocations' = [invocations EXCEPT ![i] = [c EXCEPT !.pc = "race"]]
    ELSE \E onDoneThrows \in BOOLEAN, thrown \in Thrown, onErrorThrows \in BOOLEAN :
           invocations' = StopOf(i, [invocations EXCEPT ![i] =
                            Streamed(c, onDoneThrows, thrown, onErrorThrows)])

PairSynthResolve(i, len) ==
  /\ harness.api = "pair"
  /\ invocations[i].pc = "synth"
  /\ PairLoop(i, [invocations[i] EXCEPT !.audioLen = len, !.position = 0])
  /\ UNCHANGED <<speakVars, cacheVars, providerVars, ssmlVars, xmlVars>>

\* The provider's or the sink's promise of invocation i rejects.
PairReject(i, thrown) ==
  /\ harness.api = "pair"
  /\ invocations[i].pc \in {"synth", "sink"}
  /\ invocations' = NotePeers(i, "failure",
                      [invocations EXCEPT ![i].failure = invocations[i].pc,
                                          ![i].thrown = thrown,
                                          ![i].pc = "rejected"])
  /\ UNCHANGED <<speakVars, cacheVars, providerVars, ssmlVars, xmlVars>>

\* processText of invocation i resumes in its catch block; finally: stop().
PairCatch(i) ==
  /\ harness.api = "pair"
  /\ invocations[i].pc = "rejected"
  /\ \E onErrorThrows \in BOOLEAN :
       invocations' = StopOf(i, [invocations EXCEPT ![i] =
                        Caught(invocations[i], invocations[i].thrown, onErrorThrows)])
  /\ UNCHANGED <<speakVars, cacheVars, providerVars, ssmlVars, xmlVars>>

\* The race of invocation i is won by its stop signal: break.
PairRaceStop(i) ==
  /\ harness.api = "pair"
  /\ invocations[i].pc = "race"
  /\ ShouldStop(invocations[i].stopResolved)
  /\ \E onDoneThrows \in BOOLEAN, thrown \in Thrown, onErrorThrows \in BOOLEAN :
       invocations' = StopOf(i, [invocations EXCEPT ![i] =
                        Streamed(invocations[i], onDoneThrows, thrown, onErrorThrows)])
  /\ UNCHANGED <<speakVars, cacheVars, providerVars, ssmlVars, xmlVars>>

\* The race of invocation i is won by the timer: its sink is called.
PairRaceTimer(i) ==
  /\ harness.api = "pair"
  /\ invocations[i].pc = "race"
  /\ ~ShouldStop(invocations[i].stopResolved)
  /\ LET c == invocations[i]
     IN invocations' = [invocations EXCEPT ![i] =
          [c EXCEPT !.pc = "sink",
                    !.sinkLog = Append(@, Slice(c.position, ChunkEnd(c.position, c.audioLen)))]]
  /\ UNCHANGED <<speakVars, cacheVars, providerVars, ssmlVars, xmlVars>>

\* The sink call of invocation i resolves: position = chunkEnd, loop.
PairSinkResolve(i) ==
  /\ harness.api = "pair"
  /\ invocations[i].pc = "sink"
  /\ LET c == invocations[i]
     IN PairLoop(i, [c EXCEPT !.acked = @ + 1,
                              !.position = ChunkEnd(c.position, c.audioLen)])
  /\ UNCHANGED <<speakVars, cacheVars, providerVars, ssmlVars, xmlVars>>

NextPair ==
  \/ \E i \in Invocations : PairSpeak(i)
  \/ \E i \in Invocations : PairStop(i)
  \/ \E i \in Invocations, len \in PairLengths : PairSynthResolve(i, len)
  \/ \E i \in Invocations, thrown \in Thrown : PairReject(i, thrown)
  \/ \E i \in Invocations : PairCatch(i)
  \/ \E i \in Invocations : PairRaceStop(i)
  \/ \E i \in Invocations : PairRaceTimer(i)
  \/ \E i \in Invocations : PairSinkResolve(i)

InitPair ==
  invocations = [i \in Invocations |-> IdleInvocation]

\* ------------------------------------------------------- class Speaker
\* The fields of the instance are the record sp. audioQueue is left out: the
\* code only pushes to it and clears it, and never reads it.
\* private cleanup(): isSpeaking = false; stopRequested = false
Cleanup(sp) == [sp EXCEPT !.isSpeaking = FALSE, !.stopRequested = FALSE]

\* stop(): if (isSpeaking) { stopRequested = true; audioQueue = []; cleanup() }
SpeakerStop(sp) ==
  IF sp.isSpeaking
    THEN Cleanup([sp EXCEPT !.stopRequested = TRUE])
    ELSE sp

\* speak(), lines 210..212: isSpeaking = true; stopRequested = false; audioQueue = []
SpeakerBegin(sp) ==
  [sp EXCEPT !.isSpeaking = TRUE, !.stopRequested = FALSE]

IdleCall ==
  [pc |-> "idle",          \* "idle" | "delay" | "rewriting" | "synth" | "sink"
                           \* | "returned" | "thrown"
   text |-> << >>, rewrite |-> FALSE,
   rewriterCall |-> [by |-> "default", text |-> << >>],
   synthArgs |-> << >>,    \* texts passed to this.tts.synth
   audioLen |-> -1, position |-> 0,
   sinkLog |-> << >>, acked |-> 0, inflight |-> 0,
   failure |-> "none",     \* "none" | "rewriter" | "synth" | "sink"
   \* invocations of options.onStart, of options.onDone and of the listener
   \* registered with onEnd that this invocation made
   onStartCalls |-> 0, onDoneCalls |-> 0, onEndCalls |-> 0,
   \* history: Speaker.stop() was called with this invocation in flight
   stopSeen |-> FALSE]

InFlight(c) == c.pc \in {"rewriting", "synth", "sink"}

\* History only: stop() is called at this point.
MarkStop(cs) ==
  [j \in Calls |-> IF InFlight(cs[j]) THEN [cs[j] EXCEPT !.stopSeen = TRUE] ELSE cs[j]]

\* speak() from line 210 to its first await: the fields are reset, then
\* either the rewriter or this.tts.synth is called.
BeginCall(i, text, rewrite, cs, sp) ==
  /\ speaker' = SpeakerBegin(sp)
  /\ calls' = [cs EXCEPT ![i] =
       IF rewrite
         THEN [cs[i] EXCEPT !.pc = "rewriting", !.text = text, !.rewrite = rewrite,
                            !.rewriterCall = [by |-> rewriter, text |-> text]]
         ELSE [cs[i] EXCEPT !.pc = "synth", !.text = text, !.rewrite = rewrite,
                            !.synthArgs = Append(@, text)]]

\* speaker.speak(options) is called.
SpeakerSpeak(i, text, rewrite) ==
  /\ harness.api = "class"
  /\ calls[i].pc = "idle"
  /\ \A j \in Calls : j < i => calls[j].pc # "idle"
  /\ IF harness.overlap THEN text = <<"H", "i">> /\ ~rewrite ELSE i = 1
  /\ IF speaker.isSpeaking
       THEN \* this.stop(); await new Promise(r => setTimeout(r, 100))
            /\ speaker' = SpeakerStop(speaker)
            /\ calls' = [MarkStop(calls) EXCEPT ![i] =
                 [calls[i] EXCEPT !.pc = "delay", !.text = text, !.rewrite = rewrite]]
       ELSE BeginCall(i, text, rewrite, calls, speaker)
  /\ UNCHANGED <<cacheVars, providerVars, ssmlVars, xmlVars, pairVars, harness, rewriter, fnVars, errorCbArgs>>

\* The 100 ms delay of a superseding speak() is over.
DelayDone(i) ==
  /\ harness.api = "class"
  /\ calls[i].pc = "delay"
  /\ BeginCall(i, calls[i].text, calls[i].rewrite, calls, speaker)
  /\ UNCHANGED <<cacheVars, providerVars, ssmlVars, xmlVars, pairVars, harness, rewriter, fnVars, errorCbArgs>>

\* speaker.stop() is called by the user.
SpeakerStopCall ==
  /\ harness.api = "class"
  /\ \E j \in Calls : calls[j].pc # "idle"
  /\ speaker' = SpeakerStop(speaker)
  /\ calls' = MarkStop(calls)
  /\ UNCHANGED <<cacheVars, providerVars, ssmlVars, xmlVars, pairVars, harness, rewriter, fnVars, errorCbArgs>>

\* speaker.onError(callback | null)
OnError(registered) ==
  /\ harness.api = "class"
  /\ speaker.onErrorCallback # registered
  /\ speaker' = [speaker EXCEPT !.onErrorCallback = registered]
  /\ UNCHANGED <<cacheVars, providerVars, ssmlVars, xmlVars, pairVars, harness, rewriter, fnVars, calls, errorCbArgs>>

\* speaker.onEnd(callback | null); with overlapping invocations the
\* listener is left as it is.
OnEnd(registered) ==
  /\ harness.api = "class"
  /\ ~harness.overlap
  /\ speaker.onEndCallback # registered
  /\ speaker' = [speaker EXCEPT !.onEndCallback = registered]
  /\ UNCHANGED <<cacheVars, providerVars, ssmlVars, xmlVars, pairVars, harness, rewriter, fnVars, calls, errorCbArgs>>

\* Mutation of OuterCatch: the error is rethrown without being handed to
\* the registered listener.
OuterCatch_Silent(i, thrown, what) ==
  /\ errorCbArgs' = errorCbArgs
  /\ speaker' = Cleanup(speaker)
  /\ calls' = [calls EXCEPT ![i].pc = "thrown", ![i].failure = what]

\* The outer catch, lines 288..298: onErrorCallback, cleanup(), throw.
OuterCatch(i, thrown, what) ==
  /\ errorCbArgs' = IF speaker.onErrorCallback
                      THEN Append(errorCbArgs, ToError(thrown))
                      ELSE errorCbArgs
  /\ speaker' = Cleanup(speaker)
  /\ calls' = [calls EXCEPT ![i].pc = "thrown", ![i].failure = what]

ClassRewriterResolve(i) ==
  /\ harness.api = "class"
  /\ calls[i].pc = "rewriting"
  /\ LET call == calls[i].rewriterCall
         finalText == RewriteWithinGuardrails(call.by, call.text)
     IN calls' = [calls EXCEPT ![i].pc = "synth",
                               ![i].synthArgs = Append(@, finalText)]
  /\ UNCHANGED <<cacheVars, providerVars, ssmlVars, xmlVars, pairVars, harness, rewriter, fnVars, speaker, errorCbArgs>>

ClassRewriterReject(i, thrown) ==
  /\ harness.api = "class"
  /\ calls[i].pc = "rewriting"
  /\ calls[i].rewriterCall.by = "custom"
  /\ OuterCatch(i, thrown, "rewriter")
  /\ UNCHANGED <<cacheVars, providerVars, ssmlVars, xmlVars, pairVars, harness, rewriter, fnVars>>

\* The loop of lines 250..273 from its test on, for the call record c:
\* either the next chunk is pushed and streamTo(chunk) is called, or the
\* loop is over: cleanup() and return.
ClassLoop(i, c, sp) ==
  IF c.position < c.audioLen /\ ~sp.stopRequested
    THEN LET chunk == Slice(c.position, ChunkEnd(c.position, c.audioLen))
         IN /\ speaker' = sp
            /\ calls' = [calls EXCEPT ![i] =
                 [c EXCEPT !.pc = "sink", !.sinkLog = Append(@, chunk),
                           !.inflight = @ + 1]]
    ELSE /\ speaker' = Cleanup(sp)
         /\ calls' = [calls EXCEPT ![i] = [c EXCEPT !.pc = "returned"]]

\* await this.tts.synth(...) resolves.
ClassSynthResolve(i, len) ==
  /\ harness.api = "class"
  /\ calls[i].pc = "synth"
  /\ harness.overlap => len = harness.mockLen
  /\ IF speaker.stopRequested
       THEN \* lines 234..243: return an empty result, without cleanup()
            /\ calls' = [calls EXCEPT ![i].pc = "returned"]
            /\ speaker' = speaker
       ELSE ClassLoop(i, [calls[i] EXCEPT !.audioLen = len, !.position = 0], speaker)
  /\ UNCHANGED <<cacheVars, providerVars, ssmlVars, xmlVars, pairVars, harness, rewriter, fnVars, errorCbArgs>>

ClassSynthReject(i, thrown) ==
  /\ harness.api = "class"
  /\ calls[i].pc = "synth"
  /\ OuterCatch(i, thrown, "synth")
  /\ UNCHANGED <<cacheVars, providerVars, ssmlVars, xmlVars, pairVars, harness, rewriter, fnVars>>

\* await options.streamTo(chunk) resolves: position = chunkEnd, loop.
ClassSinkResolve(i) ==
  /\ harness.api = "class"
  /\ calls[i].pc = "sink"
  /\ ClassLoop(i, [calls[i] EXCEPT !.inflight = @ - 1, !.acked = @ + 1,
                                   !.position = ChunkEnd(@, calls[i].audioLen)],
               speaker)
  /\ UNCHANGED <<cacheVars, providerVars, ssmlVars, xmlVars, pairVars, harness, rewriter, fnVars, errorCbArgs>>

\* await options.streamTo(chunk) rejects: the inner catch, lines 266..272:
\* onErrorCallback, break; then cleanup() and a normal return.
ClassSinkReject(i, thrown) ==
  /\ harness.api = "class"
  /\ calls[i].pc = "sink"
  /\ errorCbArgs' = IF speaker.onErrorCallback
                      THEN Append(errorCbArgs, ToError(thrown))
                      ELSE errorCbArgs
  /\ speaker' = Cleanup(speaker)
  /\ calls' = [calls EXCEPT ![i].pc = "returned", ![i].failure = "sink",
                            ![i].inflight = @ - 1]
  /\ UNCHANGED <<cacheVars, providerVars, ssmlVars, xmlVars, pairVars, harness, rewriter, fnVars>>

NextClass ==
  \/ \E i \in Calls, text \in Texts, rewrite \in BOOLEAN : SpeakerSpeak(i, text, rewrite)
  \/ \E i \in Calls : DelayDone(i)
  \/ SpeakerStopCall
  \/ \E registered \in BOOLEAN : OnError(registered)
  \/ \E registered \in BOOLEAN : OnEnd(registered)
  \/ \E i \in Calls : ClassRewriterResolve(i)
  \/ \E i \in Calls, thrown \in Thrown : ClassRewriterReject(i, thrown)
  \/ \E i \in Calls, len \in Lengths : ClassSynthResolve(i, len)
  \/ \E i \in Calls, thrown \in Thrown : ClassSynthReject(i, thrown)
  \/ \E i \in Calls : ClassSinkResolve(i)
  \/ \E i \in Calls, thrown \in Thrown : ClassSinkReject(i, thrown)

\* ------------------------------------------------- ssml.ts: sanitizeForTTS
\* A string is a sequence of characters; a character is a one-character
\* string, or the name of its code point ("U+00A0") when it is not ASCII or
\* is the grave accent ("U+0060").
ControlChars == {"\t", "\n", "U+200B", "U+202F"}   \* line 23
SingleQuotes == {"U+2018", "U+2019"}               \* line 24
DoubleQuotes == {"U+201C", "U+201D"}               \* line 25
Dashes == {"U+2013", "U+2014"}                     \* line 26
Ellipsis == "U+2026"                               \* line 27
UnicodeSpaces == {"U+00A0", "U+2003", "U+202F"}    \* line 28

\* The index of the first element of s at or after i that is in set, 0 if none.
RECURSIVE FirstIn(_, _, _)
FirstIn(s, i, set) ==
  IF i > Len(s) THEN 0
  ELSE IF s[i] \in set THEN i
  ELSE FirstIn(s, i + 1, set)

\* The decimal digits of n, as characters.
RECURSIVE Digits(_)
Digits(n) ==
  IF n < 10 THEN <<ToString(n)>> ELSE Digits(n \div 10) \o <<ToString(n % 10)>>

\* `__PLACEHOLDER_${n}__`
Marker(n) ==
  <<"_", "_", "P", "L", "A", "C", "E", "H", "O", "L", "D", "E", "R", "_">>
    \o Digits(n) \o <<"_", "_">>

\* text.replace(/\{[^{}]*\}/g, match => marker), lines 13..18, from index i
\* on, with n placeholders found so far: the text with the markers, and the
\* placeholders in the order of their markers.
RECURSIVE ExtractPlaceholders(_, _, _)
ExtractPlaceholders(text, i, n) ==
  IF i > Len(text) THEN [text |-> << >>, map |-> << >>]
  ELSE LET j == FirstIn(text, i + 1, {"{", "}"})
       IN IF text[i] = "{" /\ j # 0 /\ text[j] = "}"
            THEN LET rest == ExtractPlaceholders(text, j + 1, n + 1)
                 IN [text |-> Marker(n) \o rest.text,
                     map |-> <<SubSeq(text, i, j)>> \o rest.map]
            ELSE LET rest == ExtractPlaceholders(text, i + 1, n)
                 IN [text |-> <<text[i]>> \o rest.text, map |-> rest.map]

\* .replace(/<[^>]*>/g, ''), line 22, from index i on
RECURSIVE RemoveTags(_, _)
RemoveTags(text, i) ==
  IF i > Len(text) THEN << >>
  ELSE LET j == FirstIn(text, i + 1, {">"})
       IN IF text[i] = "<" /\ j # 0
            THEN RemoveTags(text, j + 1)
            ELSE <<text[i]>> \o RemoveTags(text, i + 1)

\* Lines 23..27, character by character: control characters are removed,
\* quotes and dashes are replaced, an ellipsis becomes three dots.
MapChar(c) ==
  IF c \in ControlChars THEN << >>
  ELSE IF c \in SingleQuotes THEN <<"'">>
  ELSE IF c \in DoubleQuotes THEN <<"\"">>
  ELSE IF c \in Dashes THEN <<"-">>
  ELSE IF c = Ellipsis THEN <<".", ".", ".">>
  ELSE <<c>>

RECURSIVE MapChars(_)
MapChars(text) ==
  IF text = << >> THEN << >> ELSE MapChar(Head(text)) \o MapChars(Tail(text))

\* .replace(/[set]+/g, ' '): every maximal run of characters of set becomes
\* one space (line 28 with the Unicode spaces, line 30 with \s).
RECURSIVE CollapseRuns(_, _)
CollapseRuns(text, set) ==
  IF text = << >> THEN << >>
  ELSE IF Head(text) \notin set THEN <<Head(text)>> \o CollapseRuns(Tail(text), set)
  ELSE IF Len(text) > 1 /\ text[2] \in set THEN CollapseRuns(Tail(text), set)
  ELSE <<" ">> \o CollapseRuns(Tail(text), set)

\* What \s and trim() still find after lines 23..28.
WhiteSpace == {" "} \cup UnicodeSpaces

RECURSIVE TrimStart(_)
TrimStart(text) ==
  IF text # << >> /\ Head(text) \in WhiteSpace THEN TrimStart(Tail(text)) ELSE text

RECURSIVE TrimEnd(_)
TrimEnd(text) ==
  IF text # << >> /\ text[Len(text)] \in WhiteSpace
    THEN TrimEnd(SubSeq(text, 1, Len(text) - 1))
    ELSE text

\* .trim()
Trim(text) == TrimEnd(TrimStart(text))

\* The index at which key first occurs in text at or after i, 0 if nowhere.
RECURSIVE IndexOfSeq(_, _, _)
IndexOfSeq(text, key, i) ==
  IF i + Len(key) - 1 > Len(text) THEN 0
  ELSE IF SubSeq(text, i, i + Len(key) - 1) = key THEN i
  ELSE IndexOfSeq(text, key, i + 1)

\* The replacement string of String.prototype.replace with a string
\* pattern: $$ is a dollar sign, $& the matched substring, $ with a grave
\* accent (U+0060) the text before the match and $' the text after it;
\* anything else stands for itself.
RECURSIVE ExpandReplacement(_, _, _, _)
ExpandReplacement(value, matched, before, after) ==
  IF value = << >> THEN << >>
  ELSE IF Len(value) > 1 /\ value[1] = "$" /\ value[2] \in {"$", "&", "U+0060", "'"}
    THEN (CASE value[2] = "$" -> <<"$">>
            [] value[2] = "&" -> matched
            [] value[2] = "U+0060" -> before
            [] value[2] = "'" -> after)
           \o ExpandReplacement(SubSeq(value, 3, Len(value)), matched, before, after)
  ELSE <<Head(value)>> \o ExpandReplacement(Tail(value), matched, before, after)

\* sanitized.replace(key, value): the first occurrence only
ReplaceFirst(text, key, value) ==
  LET i == IndexOfSeq(text, key, 1)
  IN IF i = 0 THEN text
     ELSE LET before == SubSeq(text, 1, i - 1)
              after == SubSeq(text, i + Len(key), Len(text))
          IN before \o ExpandReplacement(value, key, before, after) \o after

\* placeholderMap.forEach((value, key) => sanitized = sanitized.replace(key, value)),
\* from the n-th placeholder on
RECURSIVE RestorePlaceholders(_, _, _)
RestorePlaceholders(text, map, n) ==
  IF n > Len(map) THEN text
  ELSE RestorePlaceholders(ReplaceFirst(text, Marker(n - 1), map[n]), map, n + 1)

\* sanitizeForTTS(text)
SanitizeForTTS(text) ==
  IF text = << >> THEN << >>
  ELSE LET ph == ExtractPlaceholders(text, 1, 0)
           sanitized ==
             CollapseRuns(
               Trim(CollapseRuns(MapChars(RemoveTags(ph.text, 1)), UnicodeSpaces)),
               WhiteSpace)
       IN RestorePlaceholders(sanitized, ph.map, 1)

\* Texts sanitizeForTTS is applied to: every concatenation of at most
\* MaxPieces pieces: braces, angle brackets, the replacement pattern $', a
\* tab, a space, a no-break space and a letter.
MaxPieces == 5
Pieces ==
  {<<"{">>, <<"}">>, <<"<">>, <<">">>, <<"$", "'">>, <<"\t">>, <<" ">>,
   <<"U+00A0">>, <<"a">>}

RECURSIVE Concats(_)
Concats(n) ==
  IF n = 0 THEN {<< >>}
  ELSE LET shorter == Concats(n - 1)
       IN shorter \cup {t \o p : t \in shorter, p \in Pieces}

\* sanitizeForTTS is called: with the text, then with what it returned for
\* the text.
Sanitize ==
  /\ Len(outputs) < 2
  /\ outputs' = Append(outputs,
                       SanitizeForTTS(IF outputs = << >> THEN rawText
                                      ELSE outputs[Len(outputs)]))
  /\ UNCHANGED <<speakVars, cacheVars, providerVars, xmlVars, pairVars, rawText>>

NextSsml == Sanitize

\* No call of sanitizeForTTS has been made on the text arg.
InitSsml(arg) ==
  /\ rawText = arg
  /\ outputs = << >>

\* No call of escapeXml has been made on the text arg.
InitXml(arg) ==
  /\ unsafeText = arg
  /\ escaped = << >>

\* --------------------------------------------------- hash.ts: getCacheKey
\* sha1(input) as a hex digest. The digest is kept symbolic: two digests are
\* equal exactly when their inputs are (no collision among the texts used).
Sha1(input) == <<"sha1">> \o input

\* Mutation of GetCacheKey: the locale is not part of the key.
GetCacheKey_NoLocale(text, locale) == <<":">> \o Sha1(text)

\* `${locale}:${sha1(text)}`
GetCacheKey(text, locale) == <<locale, ":">> \o Sha1(text)

\* ------------------------------------------- tts.ts: ttsCache (lru-cache)
TTS_CACHE_TTL_MS == 10 * 60 * 1000
TTS_CACHE_MAX_ITEMS == 100

\* ttsCache is new LRUCache({max, ttl, updateAgeOnGet: true}). Its content is
\* the sequence of its entries [key, value, start], most recently used first;
\* start is the time from which the entry's age is counted. The field
\* inserted is history: the time of the set that stored the value.

\* The index of the entry of key in the cache c, 0 if there is none.
RECURSIVE IndexOfKey(_, _, _)
IndexOfKey(c, key, i) ==
  IF i > Len(c) THEN 0
  ELSE IF c[i].key = key THEN i
  ELSE IndexOfKey(c, key, i + 1)

\* c without its i-th entry
Without(c, i) == SubSeq(c, 1, i - 1) \o SubSeq(c, i + 1, Len(c))

\* An entry is stale once its age exceeds the ttl.
IsStale(entry, t) == t - entry.start > TTS_CACHE_TTL_MS

\* Mutation of CacheGet: a hit leaves the entry where it is in the recency
\* order.
CacheGet_NoTouch(c, key, t) ==
  LET i == IndexOfKey(c, key, 1)
  IN IF i = 0 THEN [hit |-> FALSE, value |-> "undefined", cache |-> c]
     ELSE IF IsStale(c[i], t)
       THEN [hit |-> FALSE, value |-> "undefined", cache |-> Without(c, i)]
     ELSE [hit |-> TRUE, value |-> c[i].value,
           cache |-> [c EXCEPT ![i].start = t]]

\* Mutation of CacheGet: every lookup is a miss.
CacheGet_AlwaysMiss(c, key, t) ==
  [hit |-> FALSE, value |-> "undefined", cache |-> c]

\* ttsCache.get(key) at time t: a stale entry is deleted and is a miss; a hit
\* becomes the most recently used entry and, with updateAgeOnGet, its age is
\* counted from t again.
CacheGet(c, key, t) ==
  LET i == IndexOfKey(c, key, 1)
  IN IF i = 0 THEN [hit |-> FALSE, value |-> "undefined", cache |-> c]
     ELSE IF IsStale(c[i], t)
       THEN [hit |-> FALSE, value |-> "undefined", cache |-> Without(c, i)]
     ELSE [hit |-> TRUE, value |-> c[i].value,
           cache |-> <<[c[i] EXCEPT !.start = t]>> \o Without(c, i)]

\* ttsCache.set(key, value) at time t: the entry of key is replaced, or a new
\* entry is added after the least recently used one has been dropped from a
\* full cache; either way it is the most recently used entry, of age 0.
CacheSet(c, key, value, t) ==
  LET i == IndexOfKey(c, key, 1)
      entry == [key |-> key, value |-> value, start |-> t, inserted |-> t]
  IN IF i # 0 THEN <<entry>> \o Without(c, i)
     ELSE IF Len(c) >= TTS_CACHE_MAX_ITEMS
       THEN <<entry>> \o SubSeq(c, 1, Len(c) - 1)
     ELSE <<entry>> \o c

\* ------------------------------------- tts.ts: process.env and makeTTS
\* A setting of process.env is a string (a sequence of characters) or is
\* not set (undefined).
Unset == [set |-> FALSE, value |-> << >>]
Setting(value) == [set |-> TRUE, value |-> value]

\* !setting: undefined and the empty string are falsy.
Falsy(setting) == ~setting.set \/ setting.value = << >>

UpperCase ==
  <<"A", "B", "C", "D", "E", "F", "G", "H", "I", "J", "K", "L", "M",
    "N", "O", "P", "Q", "R", "S", "T", "U", "V", "W", "X", "Y", "Z">>
LowerCase ==
  <<"a", "b", "c", "d", "e", "f", "g", "h", "i", "j", "k", "l", "m",
    "n", "o", "p", "q", "r", "s", "t", "u", "v", "w", "x", "y", "z">>

\* Mutation of ToLowerCase: the string is left as it is.
ToLowerCase_Identity(str) == str

\* str.toLowerCase()
ToLowerCase(str) ==
  [i \in 1..Len(str) |->
     IF \E k \in 1..Len(UpperCase) : UpperCase[k] = str[i]
       THEN LowerCase[CHOOSE k \in 1..Len(UpperCase) : UpperCase[k] = str[i]]
       ELSE str[i]]

\* The values of TTS_PROVIDER that name a provider.
Azure == <<"a", "z", "u", "r", "e">>
Coqui == <<"c", "o", "q", "u", "i">>
CoquiHttp == <<"c", "o", "q", "u", "i", "_", "h", "t", "t", "p">>

\* The environments tts.ts is run in: TTS_PROVIDER is not set, empty, the
\* name of a provider in some spelling, or something else; each of the other
\* settings is set or not (TTS_KEY may also be empty, TTS_HTTP_URL may end
\* with a slash).
Envs ==
  [TTS_PROVIDER :
     {Unset, Setting(<< >>), Setting(Azure),
      Setting(<<"A", "Z", "U", "R", "E">>), Setting(<<"C", "o", "q", "u", "i">>),
      Setting(CoquiHttp), Setting(<<"P", "o", "l", "l", "y">>),
      Setting(Azure \o <<" ">>)},
   TTS_KEY : {Unset, Setting(<< >>), Setting(<<"k">>)},
   AZURE_REGION : {Unset, Setting(<<"e", "u">>)},
   TTS_HTTP_URL : {Unset, Setting(<<"u">>), Setting(<<"u", "/">>)}]

\* new Error(message): the message is given by the pieces it is made of.
Error(message) == [name |-> "Error", message |-> message]

\* What makeTTS() or a constructor gives: an instance or a thrown error.
NoTTS == [kind |-> "none", class |-> "none", endpoint |-> << >>,
          key |-> << >>, error |-> Error(<< >>)]
Instance(class, endpoint, key) ==
  [NoTTS EXCEPT !.kind = "instance", !.class = class, !.endpoint = endpoint,
                !.key = key]
Threw(class, error) ==
  [NoTTS EXCEPT !.kind = "threw", !.class = class, !.error = error]

\* Mutation of NewAzureTTS: the settings are not checked.
NewAzureTTS_Unchecked(e) ==
  Instance("AzureTTS",
           <<"https://">> \o e.AZURE_REGION.value
             \o <<".tts.speech.microsoft.com/cognitiveservices/v1">>,
           e.TTS_KEY.value)

\* new AzureTTS(), lines 100..110
NewAzureTTS(e) ==
  IF Falsy(e.TTS_KEY)
    THEN Threw("AzureTTS",
               Error(<<"TTS_KEY", " is required in environment variables">>))
  ELSE IF Falsy(e.AZURE_REGION)
    THEN Threw("AzureTTS",
               Error(<<"AZURE_REGION", " is required in environment variables">>))
  ELSE Instance("AzureTTS",
                <<"https://">> \o e.AZURE_REGION.value
                  \o <<".tts.speech.microsoft.com/cognitiveservices/v1">>,
                e.TTS_KEY.value)

\* new CoquiLocalTTS()
NewCoquiLocalTTS == Instance("CoquiLocalTTS", << >>, << >>)

\* baseUrl.replace(/\/$/, '')
StripSlash(url) ==
  IF url # << >> /\ url[Len(url)] = "/" THEN SubSeq(url, 1, Len(url) - 1) ELSE url

\* new HttpCoquiTTS(), lines 40..46
NewHttpCoquiTTS(e) ==
  IF Falsy(e.TTS_HTTP_URL)
    THEN Threw("HttpCoquiTTS",
               Error(<<"TTS_HTTP_URL", " is required for HTTP Coqui TTS">>))
    ELSE Instance("HttpCoquiTTS",
                  StripSlash(e.TTS_HTTP_URL.value) \o <<"/synth">>, << >>)

\* makeTTS(): env.TTS_PROVIDER?.toLowerCase() || 'azure', then the switch.
MakeTTS(e) ==
  LET lower == IF e.TTS_PROVIDER.set THEN ToLowerCase(e.TTS_PROVIDER.value)
               ELSE << >>
      provider == IF lower = << >> THEN Azure ELSE lower
  IN IF provider = Azure THEN NewAzureTTS(e)
     ELSE IF provider = Coqui THEN NewCoquiLocalTTS
     ELSE IF provider = CoquiHttp THEN NewHttpCoquiTTS(e)
     ELSE Threw("none", Error(<<"Unsupported TTS provider: ">> \o provider))

\* -------------------------------------- tts.ts: VOICE_MAP, SSML, errors
VOICE_MAP ==
  [locale \in {"en-IN", "hi-IN", "mr-IN"} |->
     CASE locale = "en-IN" -> "en-IN-SwaraNeural"
       [] locale = "hi-IN" -> "hi-IN-SwaraNeural"
       [] locale = "mr-IN" -> "mr-IN-AarohiNeural"]

\* VOICE_MAP[locale] inside the template literal: a locale without an entry
\* gives the text "undefined".
VoiceName(locale) ==
  IF locale \in DOMAIN VOICE_MAP THEN VOICE_MAP[locale] ELSE "undefined"

\* str.replace(/c/g, by) for a pattern c of one character and a replacement
\* by that holds no $: every occurrence of c in str is replaced, and what
\* was inserted is not scanned again.
RECURSIVE ReplaceAll(_, _, _)
ReplaceAll(str, c, by) ==
  IF str = << >> THEN << >>
  ELSE (IF Head(str) = c THEN by ELSE <<Head(str)>>) \o ReplaceAll(Tail(str), c, by)

Amp == <<"&", "a", "m", "p", ";">>
Lt == <<"&", "l", "t", ";">>
Gt == <<"&", "g", "t", ";">>
Quot == <<"&", "q", "u", "o", "t", ";">>
Apos == <<"&", "a", "p", "o", "s", ";">>

\* Mutation of EscapeXml: the ampersand is replaced last.
EscapeXml_AmpLast(unsafe) ==
  ReplaceAll(ReplaceAll(ReplaceAll(ReplaceAll(ReplaceAll(unsafe,
    "<", Lt), ">", Gt), "\"", Quot), "'", Apos), "&", Amp)

\* escapeXml: five replacements over the whole string, one after the other,
\* the ampersand first.
EscapeXml(unsafe) ==
  ReplaceAll(ReplaceAll(ReplaceAll(ReplaceAll(ReplaceAll(unsafe,
    "&", Amp), "<", Lt), ">", Gt), "\"", Quot), "'", Apos)

\* buildSsml(text, locale): the document is given by what the template is
\* filled with.
BuildSsml(text, locale) ==
  [lang |-> locale, voice |-> VoiceName(locale), content |-> EscapeXml(text)]

\* What axios rejects with.
AxiosError(why) == [name |-> "AxiosError", message |-> <<why>>]

\* `${error}`
ErrorToString(error) == <<error.name, ": ">> \o error.message

\* Mutation of SynthesisFailed: the caught error is thrown on as it is.
SynthesisFailed_Rethrow(error) == error

\* new Error(`TTS synthesis failed: ${error}`), lines 91 and 159
SynthesisFailed(error) ==
  Error(<<"TTS synthesis failed: ">> \o ErrorToString(error))

\* ------------------------------------------------ tts.ts: HttpCoquiTTS
\* Calls of synth that may be in flight at the same time.
MaxSynth == 2
SynthSlots == 1..MaxSynth

\* Clock steps of scenario "ttl".
MaxTicks == 2

\* Distinct filler texts of scenario "fill", and lookups of the probe text.
MaxFillers == 101
MaxProbes == 2

\* Two of the locales of type Locale.
Locales == {"en-IN", "hi-IN"}

\* Provider instances (the cache is the module's, not the instance's).
Instances == {1, 2}

\* Texts passed to synth: "a" and " a" are sanitized to the same text.
CacheTexts == {<<"a">>, <<" ", "a">>, <<"b">>}
ProbeText == <<"a">>
Filler(n) == <<"f">> \o Digits(n)
SynthTexts == CacheTexts \cup {Filler(n) : n \in 1..MaxFillers}

\* The requests made in the scenarios "ttl" and "race": three keys, one of
\* them reached from two texts.
Requests ==
  {[text |-> t, locale |-> "en-IN"] : t \in CacheTexts}
    \cup {[text |-> <<"a">>, locale |-> "hi-IN"]}

\* The upstream service need not answer the same request with the same bytes
\* twice: it answers with one of two renderings (takes) of the posted text
\* in the posted locale.
Takes == {"A", "B"}
Audio(text, locale, take) == [text |-> text, locale |-> locale, take |-> take]

\* What is run against the cache:
\*  - "ttl": one call after the other on one instance, each with any text of
\*    CacheTexts in one locale, answered with either take, and a clock that
\*    advances by 1 ms or by the ttl between steps;
\*  - "race": MaxSynth calls, each with any request of Requests on either
\*    instance and with any upstream answer or failure, any number of them
\*    in flight at the same time, within one millisecond;
\*  - "fill": one call after the other, 1 ms apart, each with a new filler
\*    text or with the probe text (requested first, or not before the
\*    fillers), against an upstream service that always answers with the
\*    same take: enough distinct keys to overflow the cache.
Scenarios == {"ttl", "race", "fill"}

\* A fourth scenario, "provider", runs synth on what makeTTS() gave in one of
\* the environments Envs: any number of calls, one after the other, on an
\* AzureTTS or CoquiLocalTTS provider, and two calls, one after the other,
\* on an HttpCoquiTTS provider. The texts are plain or carry markup and a
\* reserved character, the locale is one of VOICE_MAP or is not (the type
\* Locale is not checked at run time), and the upstream service may also
\* answer with an empty body.
ProviderTexts == {<<"a">>, <<"<", "b", ">", "a", "&">>}
ProviderLocales == {"en-IN", "mr-IN", "fr-FR"}
ProviderSlots == {1, 2}
Empty == "empty"
ProviderTakes == Takes \cup {Empty}

\* audioData.length = 0
IsEmpty(audioData) == audioData.take = Empty

IdleSynth ==
  [pc |-> "idle",        \* "idle" | "http" | "returned" | "rejected"
   instance |-> 0, text |-> << >>, locale |-> "en-IN",
   key |-> << >>,        \* cacheKey
   posted |-> FALSE,     \* axios.post was called
   response |-> "none",  \* how axios.post ended: the type of the body, "error"
   result |-> "none"]    \* the bytes returned, or the error thrown

\* Number of clock steps that lead to the time t.
NumTicks(t) == (t \div TTS_CACHE_TTL_MS) + (t % TTS_CACHE_TTL_MS)

\* What a call asks for: the sanitized text in a locale.
Request(text, locale) == [text |-> SanitizeForTTS(text), locale |-> locale]

\* History: the latest successful synth of the request req returned audio.
Remember(log, req, audio) ==
  {e \in log : e.req # req} \cup {[req |-> req, audio |-> audio]}

\* Mutation of IsArrayBuffer: the type of the body is not checked.
IsArrayBuffer_Any(data) == TRUE

\* response.data instanceof ArrayBuffer
IsArrayBuffer(data) == data.type = "ArrayBuffer"

\* What response.data may be.
BodyTypes == {"ArrayBuffer", "string"}

\* synth(text, locale) is called on an instance: lines 49..70, up to the
\* return of the cached bytes or to the await of axios.post.
TtsSynth(c, instance, text, locale) ==
  /\ synthCalls[c].pc # "http"
  /\ IF scenario = "fill"
       THEN /\ c = 1 /\ instance = 1 /\ locale = "en-IN"
            /\ \/ /\ text = Filler(fillers + 1)
                  /\ fillers < MaxFillers
                  /\ fillers' = fillers + 1
               \/ /\ text = ProbeText
                  /\ now - fillers < MaxProbes
                  /\ fillers = 0 \/ now > fillers
                  /\ fillers' = fillers
            /\ now' = now + 1
       ELSE /\ IF scenario = "provider"
                 THEN /\ tts.kind = "instance" /\ tts.class = "HttpCoquiTTS"
                      /\ c \in ProviderSlots /\ instance = 1
                      /\ text \in ProviderTexts /\ locale \in ProviderLocales
                      /\ synthCalls[c].pc = "idle"
                      /\ \A d \in ProviderSlots :
                           /\ synthCalls[d].pc # "http"
                           /\ d < c => synthCalls[d].pc # "idle"
                 ELSE [text |-> text, locale |-> locale] \in Requests
            /\ scenario = "ttl" => c = 1 /\ instance = 1 /\ locale = "en-IN"
            /\ scenario = "race" => synthCalls[c].pc = "idle"
            /\ UNCHANGED <<fillers, now>>
  /\ LET sanitizedText == SanitizeForTTS(text)
         cacheKey == GetCacheKey(sanitizedText, locale)
         cached == CacheGet(ttsCache, cacheKey, now')
         call == [pc |-> "http", instance |-> instance, text |-> text,
                  locale |-> locale, key |-> cacheKey, posted |-> TRUE,
                  response |-> "none", result |-> "none"]
     IN /\ ttsCache' = cached.cache
        /\ IF cached.hit
             THEN /\ synthCalls' = [synthCalls EXCEPT ![c] =
                       [call EXCEPT !.pc = "returned", !.posted = FALSE,
                                    !.result = cached.value]]
                  /\ lastOk' = Remember(lastOk, Request(text, locale), cached.value)
             ELSE /\ synthCalls' = [synthCalls EXCEPT ![c] = call]
                  /\ lastOk' = lastOk
  /\ UNCHANGED <<speakVars, providerVars, ssmlVars, xmlVars, pairVars, scenario>>

\* await axios.post(endpoint, {text: sanitizedText, locale}) resolves with a
\* response whose body is of the given type and carries the given take:
\* lines 72..81, or the throw of line 73 into the catch of lines 82..91.
AxiosResolve(c, type, take) ==
  /\ synthCalls[c].pc = "http"
  /\ scenario = "fill" => take = "A"
  /\ scenario \in {"ttl", "fill"} => type = "ArrayBuffer"
  /\ take = Empty => scenario = "provider"
  /\ type # "ArrayBuffer" => take = "A"
  /\ LET data == [type |-> type,
                  bytes |-> Audio(SanitizeForTTS(synthCalls[c].text),
                                  synthCalls[c].locale, take)]
     IN IF IsArrayBuffer(data)
          THEN /\ ttsCache' = CacheSet(ttsCache, synthCalls[c].key, data.bytes, now)
               /\ synthCalls' = [synthCalls EXCEPT ![c].pc = "returned",
                                                   ![c].response = type,
                                                   ![c].result = data.bytes]
               /\ lastOk' = Remember(lastOk,
                                      Request(synthCalls[c].text, synthCalls[c].locale),
                                      data.bytes)
          ELSE /\ synthCalls' = [synthCalls EXCEPT ![c].pc = "rejected",
                                                   ![c].response = type,
                                                   ![c].result =
                                                     SynthesisFailed(Error(
                                                       <<"Invalid response format from TTS service">>))]
               /\ UNCHANGED <<ttsCache, lastOk>>
  /\ UNCHANGED <<speakVars, providerVars, ssmlVars, xmlVars, pairVars, scenario, now, fillers>>

\* Why axios.post rejects: no connection, a status outside 2xx, or the
\* 10 s timeout.
AxiosErrors == {"transport", "status", "timeout"}

\* await axios.post(...) rejects: the catch of lines 82..91.
AxiosReject(c, why) ==
  /\ synthCalls[c].pc = "http"
  /\ scenario \in {"race", "provider"}
  /\ synthCalls' = [synthCalls EXCEPT ![c].pc = "rejected",
                                      ![c].response = "error",
                                      ![c].result = SynthesisFailed(AxiosError(why))]
  /\ UNCHANGED <<speakVars, providerVars, ssmlVars, xmlVars, pairVars, scenario, now, ttsCache, fillers, lastOk>>

\* Time passes (scenario "ttl").
Tick(d) ==
  /\ scenario = "ttl"
  /\ NumTicks(now) < MaxTicks
  /\ now' = now + d
  /\ UNCHANGED <<speakVars, providerVars, ssmlVars, xmlVars, pairVars, scenario, ttsCache, synthCalls, fillers, lastOk>>

NextCache ==
  \/ \E c \in SynthSlots, instance \in Instances, locale \in Locales,
        text \in SynthTexts :
       TtsSynth(c, instance, text, locale)
  \/ \E c \in SynthSlots, type \in BodyTypes, take \in Takes :
       AxiosResolve(c, type, take)
  \/ \E c \in SynthSlots, why \in AxiosErrors : AxiosReject(c, why)
  \/ \E d \in {1, TTS_CACHE_TTL_MS} : Tick(d)

\* The cache of a freshly loaded module, in the scenario sc.
InitCache(sc) ==
  /\ scenario = sc
  /\ now = 0
  /\ ttsCache = << >>
  /\ synthCalls = [c \in SynthSlots |-> IdleSynth]
  /\ fillers = 0
  /\ lastOk = {}

\* ---------------------------------- tts.ts: AzureTTS, CoquiLocalTTS
NoSsml == [lang |-> "", voice |-> "", content |-> << >>]

IdleEngineCall ==
  [pc |-> "idle",        \* "idle" | "http" | "returned" | "rejected"
   text |-> << >>, locale |-> "en-IN",
   posted |-> FALSE,     \* axios(...) was called
   url |-> << >>,        \* the url of the request
   data |-> NoSsml,      \* the body of the request
   result |-> "none"]    \* the bytes returned, or the error thrown

\* const tts = makeTTS(), called by whoever needs a provider.
CallMakeTTS ==
  /\ scenario = "provider"
  /\ tts.kind = "none"
  /\ tts' = MakeTTS(env)
  /\ UNCHANGED <<speakVars, cacheVars, ssmlVars, xmlVars, pairVars, env, engineCall>>

\* AzureTTS.synth(text, locale), lines 134..148: up to the await of axios.
AzureSynth(text, locale) ==
  /\ tts.kind = "instance" /\ tts.class = "AzureTTS"
  /\ engineCall.pc # "http"
  /\ LET ssml == BuildSsml(text, locale)
     IN engineCall' = [pc |-> "http", text |-> text, locale |-> locale,
                       posted |-> TRUE, url |-> tts.endpoint, data |-> ssml,
                       result |-> "none"]
  /\ UNCHANGED <<speakVars, cacheVars, ssmlVars, xmlVars, pairVars, env, tts>>

\* await axios(...) resolves (a 2xx response): return new
\* Uint8Array(response.data), line 150. The body is one of the renderings of
\* the posted document, or is empty.
AzureResolve(take) ==
  /\ tts.class = "AzureTTS"
  /\ engineCall.pc = "http"
  /\ engineCall' = [engineCall EXCEPT
                      !.pc = "returned",
                      !.result = Audio(engineCall.data, engineCall.locale, take)]
  /\ UNCHANGED <<speakVars, cacheVars, ssmlVars, xmlVars, pairVars, env, tts>>

\* await axios(...) rejects: the catch of lines 151..160.
AzureReject(why) ==
  /\ tts.class = "AzureTTS"
  /\ engineCall.pc = "http"
  /\ engineCall' = [engineCall EXCEPT
                      !.pc = "rejected",
                      !.result = SynthesisFailed(AxiosError(why))]
  /\ UNCHANGED <<speakVars, cacheVars, ssmlVars, xmlVars, pairVars, env, tts>>

\* CoquiLocalTTS.synth(text, locale), lines 165..167
CoquiLocalSynth(text, locale) ==
  /\ tts.kind = "instance" /\ tts.class = "CoquiLocalTTS"
  /\ engineCall' = [IdleEngineCall EXCEPT
                      !.pc = "rejected", !.text = text, !.locale = locale,
                      !.result = Error(<<"CoquiLocalTTS is not implemented yet">>)]
  /\ UNCHANGED <<speakVars, cacheVars, ssmlVars, xmlVars, pairVars, env, tts>>

\* The settings are removed from process.env after a provider was made
\* (delete process.env.TTS_KEY, as the tests do between cases).
NoEnv ==
  [TTS_PROVIDER |-> Unset, TTS_KEY |-> Unset, AZURE_REGION |-> Unset,
   TTS_HTTP_URL |-> Unset]

ClearEnv ==
  /\ scenario = "provider"
  /\ tts.kind = "instance"
  /\ env # NoEnv
  /\ env' = NoEnv
  /\ UNCHANGED <<speakVars, cacheVars, ssmlVars, xmlVars, pairVars, tts, engineCall>>

NextProvider ==
  \/ CallMakeTTS
  \/ ClearEnv
  \/ \E text \in ProviderTexts, locale \in ProviderLocales : AzureSynth(text, locale)
  \/ \E take \in ProviderTakes : AzureResolve(take)
  \/ \E why \in AxiosErrors : AzureReject(why)
  \/ \E text \in ProviderTexts, locale \in ProviderLocales :
       CoquiLocalSynth(text, locale)
  \/ \E c \in ProviderSlots, text \in ProviderTexts, locale \in ProviderLocales :
       TtsSynth(c, 1, text, locale)
  \/ \E c \in ProviderSlots, type \in BodyTypes, take \in ProviderTakes :
       AxiosResolve(c, type, take)
  \/ \E c \in ProviderSlots, why \in AxiosErrors : AxiosReject(c, why)

\* tts.ts loaded in the environment e: makeTTS() has not been called.
InitProvider(e) ==
  /\ env = e
  /\ tts = NoTTS
  /\ engineCall = IdleEngineCall

\* Texts escapeXml is applied to: every string of at most MaxXmlLen
\* characters among the five reserved ones, a letter and a semicolon.
MaxXmlLen == 4
XmlChars == {"&", "<", ">", "\"", "'", "a", ";"}

RECURSIVE Strings(_)
Strings(n) ==
  IF n = 0 THEN {<< >>}
  ELSE LET shorter == Strings(n - 1)
       IN shorter \cup {Append(t, c) : t \in shorter, c \in XmlChars}

XmlInputs == Strings(MaxXmlLen)

\* this.escapeXml(text), as buildSsml calls it.
Escape ==
  /\ escaped = << >>
  /\ escaped' = <<EscapeXml(unsafeText)>>
  /\ UNCHANGED <<speakVars, cacheVars, providerVars, ssmlVars, pairVars, unsafeText>>

NextXml == Escape

\* An environment with every setting present: the one tts.ts is loaded in
\* while speak() or the cache is explored.
TestEnv ==
  [TTS_PROVIDER |-> Setting(CoquiHttp), TTS_KEY |-> Setting(<<"k">>),
   AZURE_REGION |-> Setting(<<"e", "u">>), TTS_HTTP_URL |-> Setting(<<"u">>)]

\* ------------------------------------------------------- specification
InitSpeakState ==
  /\ rewriter = "default"
  /\ pc = "idle"
  /\ options = [text |-> << >>, rewrite |-> FALSE]
  /\ isStopped = FALSE
  /\ stopResolved = FALSE
  /\ audioLen = -1
  /\ position = 0
  /\ sinkLog = << >>
  /\ acked = 0
  /\ inflight = 0
  /\ rewriterCalls = << >>
  /\ synthArgs = << >>
  /\ onStartCalls = 0
  /\ onDoneCalls = 0
  /\ onErrorArgs = << >>
  /\ promise = "none"
  /\ stopCalled = FALSE
  /\ failure = "none"
  /\ deliveredAtStop = -1
  /\ onDoneThrew = FALSE
  /\ onErrorThrew = FALSE
  /\ pending = NoRejection
  /\ speaker = [isSpeaking |-> FALSE, stopRequested |-> FALSE,
                onErrorCallback |-> FALSE, onEndCallback |-> FALSE]
  /\ calls = [i \in Calls |-> IdleCall]
  /\ errorCbArgs = << >>

InitSpeak ==
  /\ harness \in Harnesses
  /\ InitSpeakState

\* The state after the modules have been loaded; no synth call of
\* HttpCoquiTTS is made while speak() is explored.
Init ==
  /\ InitSpeak
  /\ InitCache("ttl")
  /\ InitProvider(TestEnv)
  /\ InitSsml(<< >>)
  /\ InitXml(<< >>)
  /\ InitPair

NextFn ==
  \/ \E text \in Texts, rewrite \in BOOLEAN : Speak(text, rewrite)
  \/ CallStop
  \/ RewriterResolve
  \/ \E thrown \in Thrown : RewriterReject(thrown)
  \/ CatchRejection
  \/ \E len \in Lengths : SynthResolve(len)
  \/ \E thrown \in Thrown : SynthReject(thrown)
  \/ RaceStop
  \/ RaceTimer
  \/ SinkResolve
  \/ \E thrown \in Thrown : SinkReject(thrown)
  \/ \E newRewriter \in Rewriters \cup {"null"} : SetRewriter(newRewriter)

Next == NextFn \/ NextClass

Spec == Init /\ [][Next]_vars

\* One invocation of function speak() in which every promise the
\* invocation awaits is settled in the end: the rewriter's, the provider's
\* and the sink's calls resolve or reject, the 10 ms timer of a race fires
\* unless the stop signal wins, and the microtask that runs the catch block
\* is run. When the caller calls stop() or setRewriter() is left open.
InitFn ==
  /\ Init
  /\ harness.api = "function"

Fairness ==
  /\ WF_vars(RewriterResolve \/ \E thrown \in Thrown : RewriterReject(thrown))
  /\ WF_vars((\E len \in Lengths : SynthResolve(len))
               \/ \E thrown \in Thrown : SynthReject(thrown))
  /\ WF_vars(RaceTimer \/ RaceStop)
  /\ WF_vars(SinkResolve \/ \E thrown \in Thrown : SinkReject(thrown))
  /\ WF_vars(CatchRejection)

SpecFair == InitFn /\ [][NextFn]_vars /\ Fairness

\* Two invocations of function speak() interleaved.
InitTwo ==
  /\ harness = [api |-> "pair", overlap |-> FALSE, mockLen |-> -1]
  /\ InitSpeakState
  /\ InitCache("ttl")
  /\ InitProvider(TestEnv)
  /\ InitSsml(<< >>)
  /\ InitXml(<< >>)
  /\ InitPair

SpecPair == InitTwo /\ [][NextPair]_vars

\* HttpCoquiTTS.synth and the cache alone: no speak() is in progress.
InitTts ==
  /\ InitSpeak
  /\ harness = [api |-> "function", overlap |-> FALSE, mockLen |-> -1]
  /\ \E sc \in Scenarios : InitCache(sc)
  /\ InitProvider(TestEnv)
  /\ InitSsml(<< >>)
  /\ InitXml(<< >>)
  /\ InitPair

SpecCache == InitTts /\ [][NextCache]_vars

\* makeTTS() and the providers alone, in any environment.
InitTtsProvider ==
  /\ InitSpeak
  /\ harness = [api |-> "function", overlap |-> FALSE, mockLen |-> -1]
  /\ InitCache("provider")
  /\ \E e \in Envs : InitProvider(e)
  /\ InitSsml(<< >>)
  /\ InitXml(<< >>)
  /\ InitPair

SpecProvider == InitTtsProvider /\ [][NextProvider]_vars

\* sanitizeForTTS alone, on any text of at most MaxPieces pieces.
InitSanitize ==
  /\ InitSpeak
  /\ harness = [api |-> "function", overlap |-> FALSE, mockLen |-> -1]
  /\ InitCache("ttl")
  /\ InitProvider(TestEnv)
  /\ \E arg \in Concats(MaxPieces) : InitSsml(arg)
  /\ InitXml(<< >>)
  /\ InitPair

SpecSsml == InitSanitize /\ [][NextSsml]_vars

\* escapeXml alone, on any text of XmlInputs.
InitEscape ==
  /\ InitSpeak
  /\ harness = [api |-> "function", overlap |-> FALSE, mockLen |-> -1]
  /\ InitCache("ttl")
  /\ InitProvider(TestEnv)
  /\ InitSsml(<< >>)
  /\ \E arg \in XmlInputs : InitXml(arg)
  /\ InitPair

SpecXml == InitEscape /\ [][NextXml]_vars


\* ============================================================== claims
CeilDiv(a, b) == (a + b - 1) \div b
NumChunks(len) == CeilDiv(len, CHUNK_SIZE_BYTES)
Size(chunk) == chunk.to - chunk.from

\* The last chunk of a buffer of length len: len mod C bytes, C bytes when
\* len is an exact multiple of C.
LastChunkSize(len) ==
  IF len % CHUNK_SIZE_BYTES = 0 THEN CHUNK_SIZE_BYTES ELSE len % CHUNK_SIZE_BYTES

\* The first n chunks of log carry the bytes [0, upto) in order, with no
\* gap, no overlap and no repetition.
Tiles(log, n, upto) ==
  /\ n <= Len(log)
  /\ \A k \in 1..n :
       /\ log[k].from = (IF k = 1 THEN 0 ELSE log[k - 1].to)
       /\ log[k].from < log[k].to
  /\ upto = (IF n = 0 THEN 0 ELSE log[n].to)

\* The sink of function speak() never failed and stop() was never called,
\* and the invocation is over with a synthesized buffer.
FnCompleted ==
  /\ harness.api = "function"
  /\ pc = "settled"
  /\ audioLen >= 0
  /\ failure = "none"
  /\ ~stopCalled

C2_OneInvocation(log, nAcked, pos, len) ==
  /\ Tiles(log, nAcked, pos)
  /\ Len(log) <= nAcked + 1
  /\ Len(log) = nAcked + 1 =>
       /\ log[Len(log)].from = pos
       /\ pos < log[Len(log)].to
       /\ log[Len(log)].to <= len

C3_OneOutstanding ==
  /\ harness.api = "function" =>
       /\ inflight \in {0, 1}
       /\ Len(sinkLog) <= acked + 1
       /\ inflight = 1 => pc = "sink"
  /\ harness.api = "class" =>
       \A i \in Calls :
         /\ calls[i].inflight \in {0, 1}
         /\ Len(calls[i].sinkLog) <= calls[i].acked + 1
         /\ calls[i].inflight = 1 => calls[i].pc = "sink"

C3_Witness ==
  /\ harness.api = "function"
  /\ pc = "sink"
  /\ inflight = 1
  /\ acked = 1
  /\ Len(sinkLog) = 2


\* C4: a request whose text is empty never invokes the provider's synth and
\* never invokes the sink, and completes successfully (no error callback),
\* for function speak() and for class Speaker.speak().
C4_EmptyTextShortCircuit ==
  /\ (harness.api = "function" /\ pc # "idle" /\ options.text = << >>) =>
       /\ synthArgs = << >>
       /\ sinkLog = << >>
       /\ onErrorArgs = << >>
       /\ promise # "rejected"
  /\ harness.api = "class" =>
       \A i \in Calls :
         (calls[i].pc \notin {"idle", "delay"} /\ calls[i].text = << >>) =>
           /\ calls[i].synthArgs = << >>
           /\ calls[i].sinkLog = << >>
           /\ calls[i].pc # "thrown"

\* C5: once the stop() returned by speak() has been called, no sink
\* delivery is started afterwards for that invocation; a stop requested
\* after the first chunk of a buffer of several chunks results in strictly
\* fewer sink deliveries than the buffer has chunks.
C5_NoDeliveryAfterStop ==
  (harness.api = "function" /\ stopCalled) =>
    /\ Len(sinkLog) = deliveredAtStop
    /\ (audioLen >= 0 /\ deliveredAtStop = 1 /\ NumChunks(audioLen) > 1) =>
         Len(sinkLog) < NumChunks(audioLen)

C5_Witness ==
  /\ harness.api = "function"
  /\ stopCalled
  /\ pc = "settled"
  /\ audioLen = MaxChunks * CHUNK_SIZE_BYTES
  /\ deliveredAtStop = 1
  /\ acked = 1
  /\ Len(sinkLog) = 1

\* C6: after Speaker.stop() is called while an invocation is in flight
\* (provider call pending or chunks being streamed), that invocation
\* delivers no further chunk to its sink.
C6_SpeakerStopHalts ==
  [][harness.api = "class" =>
       \A i \in Calls :
         calls[i].stopSeen => Len(calls'[i].sinkLog) = Len(calls[i].sinkLog)]_vars

\* C7: single-flight: no two invocations of one Speaker both deliver
\* chunks; an earlier invocation delivers no chunk after a later one has
\* begun its own work.
C7_SingleFlight ==
  [][harness.api = "class" =>
       \A i, j \in Calls :
         (i < j /\ calls[j].pc \notin {"idle", "delay"}) =>
           Len(calls'[i].sinkLog) = Len(calls[i].sinkLog)]_vars

\* C8: when the provider's synth fails and stop() was not called, onError
\* is invoked exactly once with a non-null Error and the sink is never
\* invoked.
ErrorObjects == {"Error", "Error(String)"}

C8_SynthFailure ==
  (harness.api = "function" /\ failure = "synth" /\ ~stopCalled) =>
    /\ pc = "settled"
    /\ Len(onErrorArgs) = 1
    /\ onErrorArgs[1] \in ErrorObjects
    /\ sinkLog = << >>

C8_Witness ==
  /\ harness.api = "function"
  /\ failure = "synth"
  /\ ~stopCalled
  /\ onErrorArgs = <<"Error(String)">>

\* C9: when the sink rejects chunk k and stop() was not called, onError is
\* invoked exactly once, chunk k is the last chunk handed to the sink (no
\* later chunk, no retry), and onDone is never invoked.
C9_SinkFailure ==
  (harness.api = "function" /\ failure = "sink" /\ ~stopCalled) =>
    /\ pc = "settled"
    /\ Len(onErrorArgs) = 1
    /\ onDoneCalls = 0
    /\ Len(sinkLog) = acked + 1
    /\ inflight = 0
    /\ \A a, b \in 1..Len(sinkLog) : a # b => sinkLog[a] # sinkLog[b]

C9_Witness ==
  /\ harness.api = "function"
  /\ failure = "sink"
  /\ ~stopCalled
  /\ acked = 1
  /\ Len(sinkLog) = 2
  /\ Len(onErrorArgs) = 1

\* C10: the promise returned by speak() never rejects; for every failure
\* of the rewriter, the provider or the sink the promise resolves and the
\* error is reported only through onError.
C10_NeverRejects ==
  harness.api = "function" =>
    /\ promise # "rejected"
    /\ (pc = "settled" /\ failure # "none") => promise = "resolved"

\* What the code does instead: the promise settles with the invocation, and
\* it rejects exactly when the onError callback itself throws.
PromiseRejectsIffOnErrorThrows ==
  harness.api = "function" =>
    /\ promise = "rejected" <=> onErrorThrew
    /\ pc = "settled" <=> promise \in {"resolved", "rejected"}

\* C11: class Speaker: when the provider's synth fails, the error is
\* delivered through the error callback at most once per failed invocation,
\* the sink is never invoked, and the promise returned by Speaker.speak()
\* does not reject.
C11_SpeakerSynthFailure ==
  harness.api = "class" =>
    /\ \A i \in Calls :
         calls[i].failure = "synth" =>
           /\ calls[i].sinkLog = << >>
           /\ calls[i].pc # "thrown"
    /\ Len(errorCbArgs) <= Cardinality({i \in Calls : calls[i].failure # "none"})

\* What the code does instead: an invocation whose rewriter or provider
\* failed always ends with a rejected promise, with nothing handed to the
\* sink.
SpeakerFailureRethrown ==
  harness.api = "class" =>
    \A i \in Calls :
      calls[i].failure \in {"rewriter", "synth"} =>
        calls[i].pc = "thrown" /\ calls[i].sinkLog = << >>

\* C12: stopping is not an error: once stop() has been called before the
\* invocation of speak() settled, neither onError nor onDone is invoked
\* afterwards, and the promise resolves.
C12_StopIsNotAnError ==
  /\ [](harness.api = "function" /\ stopCalled =>
         /\ promise # "rejected"
         /\ pc = "settled" => promise = "resolved")
  /\ [][harness.api = "function" /\ stopCalled =>
          onDoneCalls' = onDoneCalls /\ onErrorArgs' = onErrorArgs]_vars

\* stop() was called with the provider call pending, the provider failed
\* afterwards, and the invocation is over.
C12_Witness ==
  /\ harness.api = "function"
  /\ stopCalled
  /\ pending.kind = "synth"
  /\ pending.stopped
  /\ pc = "settled"
  /\ promise = "resolved"
  /\ onErrorArgs = << >>
  /\ onDoneCalls = 0

\* C13: stop/error precedence for speak(): a stop suppresses the error
\* outcome only if stop() was called strictly before the failure occurred;
\* when the provider or the sink fails first and stop() is called afterwards,
\* before the failure has been handled, the invocation still ends Errored
\* and onError is invoked exactly once.
C13_StopErrorPrecedence ==
  (harness.api = "function" /\ pc = "settled" /\ failure \in {"synth", "sink"}) =>
    /\ onErrorArgs = << >> => pending.stopped
    /\ ~pending.stopped => Len(onErrorArgs) = 1

\* What the code does instead: the catch block tests isStopped when it runs,
\* so a failure is reported exactly when stop() was not called before the
\* catch block ran, whether before or after the failure.
StopBeforeCatchWins ==
  (harness.api = "function" /\ pc = "settled"
     /\ failure \in {"rewriter", "synth", "sink"}) =>
    /\ Len(onErrorArgs) <= 1
    /\ onErrorArgs = << >> <=> stopCalled

\* The text the rewriter r returns for text: the default rewriter returns
\* it unchanged, the custom one prefixes it.
Rewritten(r, text) == IF r = "custom" THEN <<"rewritten:">> \o text ELSE text

\* C14: rewrite composition: with rewrite enabled the rewriter active when
\* speak() was called is invoked once with the original text, and synth is
\* invoked exactly once, with the text that rewriter returned; with rewrite
\* disabled or absent the rewriter is never invoked and synth receives the
\* original text unchanged.
C14_RewriteComposition ==
  (harness.api = "function" /\ pc # "idle") =>
    /\ Len(synthArgs) <= 1
    /\ pc \in {"synth", "race", "sink"} \/ audioLen >= 0 => Len(synthArgs) = 1
    /\ options.rewrite =>
         /\ Len(rewriterCalls) = 1
         /\ rewriterCalls[1].text = options.text
         /\ synthArgs # << >> =>
              synthArgs[1] = Rewritten(rewriterCalls[1].by, options.text)
    /\ ~options.rewrite =>
         /\ rewriterCalls = << >>
         /\ synthArgs # << >> => synthArgs[1] = options.text

\* The custom rewriter was active, its result differs from the original
\* text, and the pipeline went on to synthesis with it.
C14_Witness ==
  /\ harness.api = "function"
  /\ options = [text |-> <<"H", "i">>, rewrite |-> TRUE]
  /\ rewriterCalls = <<[by |-> "custom", text |-> <<"H", "i">>]>>
  /\ synthArgs = << <<"rewritten:", "H", "i">> >>
  /\ audioLen > 0

\* C15: when the rewriter fails (rewrite enabled), the failure is handled
\* like a synthesis-stage error: the provider's synth is never invoked, the
\* sink is never invoked, and the error callback is invoked exactly once
\* (function speak(): options.onError, unless stop() was called first;
\* class Speaker: the listener registered with onError()).
C15_RewriterFailure ==
  /\ []((harness.api = "function" /\ failure = "rewriter" /\ ~stopCalled) =>
          /\ pc = "settled"
          /\ synthArgs = << >>
          /\ sinkLog = << >>
          /\ Len(onErrorArgs) = 1
          /\ onErrorArgs[1] \in ErrorObjects)
  /\ [](harness.api = "class" =>
          /\ \A i \in Calls :
               calls[i].failure = "rewriter" =>
                 calls[i].synthArgs = << >> /\ calls[i].sinkLog = << >>
          /\ ~harness.overlap => Len(errorCbArgs) <= 1)
  /\ [][harness.api = "class" =>
          \A i \in Calls :
            (calls[i].failure = "none" /\ calls'[i].failure = "rewriter"
               /\ speaker.onErrorCallback) =>
              /\ Len(errorCbArgs') = Len(errorCbArgs) + 1
              /\ errorCbArgs'[Len(errorCbArgs')] \in ErrorObjects]_vars

\* The custom rewriter of a Speaker invocation rejected with a listener
\* registered, and the listener got the error.
C15_Witness ==
  /\ harness.api = "class"
  /\ calls[1].failure = "rewriter"
  /\ calls[1].rewrite
  /\ calls[1].synthArgs = << >>
  /\ errorCbArgs = <<"Error(String)">>

\* ------------------------------------------------- claims on the cache
\* The step starts a call of synth in the slot c.
SynthStarts(c) ==
  /\ synthCalls[c].pc # "http"
  /\ synthCalls'[c].pc \in {"http", "returned"}
  /\ \A d \in SynthSlots \ {c} : synthCalls'[d] = synthCalls[d]
  /\ synthCalls'[c] # synthCalls[c] \/ ttsCache' # ttsCache

\* The cache c holds an entry of key that is within its time-to-live at t.
Live(c, key, t) ==
  \E i \in 1..Len(c) : c[i].key = key /\ t - c[i].start <= TTS_CACHE_TTL_MS

\* C16: cache determinism: when synth is called for a sanitized text and
\* locale for which an earlier call succeeded, and the entry is still stored
\* and within its time-to-live, the call returns at once the very bytes the
\* latest successful call returned and posts no HTTP request, whichever
\* instance and whichever raw text the calls were made with.
C16_CacheDeterminism ==
  [][\A c \in SynthSlots :
       SynthStarts(c) =>
         LET call == synthCalls'[c]
             req == Request(call.text, call.locale)
         IN \A e \in lastOk :
              (e.req = req /\ Live(ttsCache, GetCacheKey(req.text, req.locale), now')) =>
                /\ call.pc = "returned"
                /\ ~call.posted
                /\ call.result = e.audio]_vars

\* A call on one instance fetched the audio of "a"; a call on the other
\* instance with the text " a" got the same bytes without a request.
C16_Witness ==
  /\ scenario = "race"
  /\ synthCalls[1].pc = "returned" /\ synthCalls[1].posted
  /\ synthCalls[1].instance = 1 /\ synthCalls[1].text = <<"a">>
  /\ synthCalls[2].pc = "returned" /\ ~synthCalls[2].posted
  /\ synthCalls[2].instance = 2 /\ synthCalls[2].text = <<" ", "a">>
  /\ synthCalls[2].locale = synthCalls[1].locale
  /\ synthCalls[2].result = synthCalls[1].result
  /\ synthCalls[2].result = Audio(<<"a">>, synthCalls[1].locale, "B")

\* The entries of the cache c a lookup at time t can still return.
LiveEntries(c, t) ==
  {c[i] : i \in {j \in 1..Len(c) : t - c[j].start <= TTS_CACHE_TTL_MS}}

\* C17: the cache is written only on success: an entry is inserted or
\* replaced only by the step in which a call gets a successful upstream
\* response with a binary body, under that call's key and with the bytes the
\* call returns; a call whose request fails (transport failure, non-success
\* status, timeout) or is answered with a non-binary body rejects, and
\* neither its lookup nor its failure changes what the cache holds.
C17_WrittenOnlyOnSuccess ==
  [][/\ \A i \in 1..Len(ttsCache') :
          (\A j \in 1..Len(ttsCache) :
              ttsCache[j].key # ttsCache'[i].key
                \/ ttsCache[j].value # ttsCache'[i].value) =>
            \E c \in SynthSlots :
              /\ synthCalls[c].pc = "http"
              /\ synthCalls'[c].pc = "returned"
              /\ synthCalls'[c].response = "ArrayBuffer"
              /\ ttsCache'[i].key = synthCalls'[c].key
              /\ ttsCache'[i].value = synthCalls'[c].result
     /\ \A c \in SynthSlots :
          /\ (synthCalls[c].pc = "http" /\ synthCalls'[c].pc # "http"
                /\ synthCalls'[c].response # "ArrayBuffer") =>
               /\ synthCalls'[c].pc = "rejected"
               /\ ttsCache' = ttsCache
          /\ (synthCalls[c].pc # "http" /\ synthCalls'[c].pc = "http") =>
               /\ LiveEntries(ttsCache', now') = LiveEntries(ttsCache, now')
               /\ Len(ttsCache') <= Len(ttsCache)]_vars

\* A call was answered with a non-binary body and rejected; the cache holds
\* an entry of another key and none of the call's key.
C17_Witness ==
  /\ scenario = "race"
  /\ synthCalls[1].pc = "rejected"
  /\ synthCalls[1].response = "string"
  /\ synthCalls[2].pc = "returned"
  /\ Len(ttsCache) = 1
  /\ ttsCache[1].key # synthCalls[1].key

\* The step is a lookup of the call in slot c that returns a cached entry.
LookupHits(c) == SynthStarts(c) /\ synthCalls'[c].pc = "returned"

\* C18: a cache lookup returns an entry only while the time elapsed since
\* that entry was inserted is below the time-to-live of 10 minutes (stated
\* here with "at most", so that a lookup at exactly 10 minutes passes).
C18_TtlFromInsertion ==
  [][\A c \in SynthSlots :
       LookupHits(c) =>
         \E i \in 1..Len(ttsCache) :
           /\ ttsCache[i].key = synthCalls'[c].key
           /\ now' - ttsCache[i].inserted <= TTS_CACHE_TTL_MS]_vars

\* What the code does instead: the time-to-live is counted from the later of
\* the insertion and the last lookup that returned the entry; a lookup
\* returns the entry exactly when that time does not exceed the time-to-live,
\* and restarts it.
TtlFromLastUse ==
  [][\A c \in SynthSlots :
       SynthStarts(c) =>
         \A i \in 1..Len(ttsCache) :
           ttsCache[i].key = synthCalls'[c].key =>
             IF now' - ttsCache[i].start <= TTS_CACHE_TTL_MS
               THEN /\ synthCalls'[c].pc = "returned"
                    /\ synthCalls'[c].result = ttsCache[i].value
                    /\ ttsCache'[1] = [ttsCache[i] EXCEPT !.start = now']
               ELSE /\ synthCalls'[c].pc = "http"
                    /\ synthCalls'[c].posted]_vars

\* The keys stored in the cache c.
Keys(c) == {c[i].key : i \in 1..Len(c)}

\* C19: bounded LRU: the cache never holds more than TTS_CACHE_MAX_ITEMS
\* (100) entries, and a step that inserts a new key and drops a stored one
\* happens only on a full cache and drops exactly one entry, the least
\* recently used one: no stored entry was inserted or returned by a lookup
\* longer ago than the dropped one.
C19_BoundedLru ==
  /\ [](TTS_CACHE_MAX_ITEMS = 100 /\ Len(ttsCache) <= TTS_CACHE_MAX_ITEMS)
  /\ [][(Keys(ttsCache') \ Keys(ttsCache) # {}
           /\ Keys(ttsCache) \ Keys(ttsCache') # {}) =>
          /\ Len(ttsCache) = TTS_CACHE_MAX_ITEMS
          /\ Len(ttsCache') = TTS_CACHE_MAX_ITEMS
          /\ \A i \in 1..Len(ttsCache) :
               ttsCache[i].key \notin Keys(ttsCache') =>
                 \A j \in 1..Len(ttsCache) : ttsCache[j].start >= ttsCache[i].start]_vars

\* The probe text was cached first, 99 fillers followed, a lookup returned
\* the probe's entry, and the 100th filler overflowed the cache: the first
\* filler was dropped, not the older but more recently used probe entry.
C19_Witness ==
  /\ scenario = "fill"
  /\ fillers = TTS_CACHE_MAX_ITEMS
  /\ Len(ttsCache) = TTS_CACHE_MAX_ITEMS
  /\ GetCacheKey(Filler(1), "en-IN") \notin Keys(ttsCache)
  /\ \E i \in 1..Len(ttsCache) :
       /\ ttsCache[i].key = GetCacheKey(ProbeText, "en-IN")
       /\ ttsCache[i].inserted = 1
       /\ ttsCache[i].start = TTS_CACHE_MAX_ITEMS + 1

\* The bytes of a successful upstream response to the request of the call.
ResponsesFor(call) ==
  {Audio(SanitizeForTTS(call.text), call.locale, take) : take \in Takes}

\* C20: under every interleaving of synth calls, with the same or different
\* keys and on the same or different instances, a lookup is a miss or returns
\* the whole value of the one entry stored under the call's key, which is the
\* body of a successful upstream response to the call's own sanitized text
\* and locale; every stored value is such a body for its key, and no key has
\* two entries.
C20_LookupIsolation ==
  /\ [](/\ Cardinality(Keys(ttsCache)) = Len(ttsCache)
        /\ \A i \in 1..Len(ttsCache) :
             /\ ttsCache[i].value \in
                  {Audio(ttsCache[i].value.text, ttsCache[i].value.locale, take) :
                     take \in Takes}
             /\ ttsCache[i].key =
                  GetCacheKey(ttsCache[i].value.text, ttsCache[i].value.locale)
        /\ \A c \in SynthSlots :
             synthCalls[c].pc = "returned" =>
               synthCalls[c].result \in ResponsesFor(synthCalls[c]))
  /\ [][\A c \in SynthSlots :
          LookupHits(c) =>
            /\ ~synthCalls'[c].posted
            /\ synthCalls'[c].result \in ResponsesFor(synthCalls'[c])
            /\ \E i \in 1..Len(ttsCache) :
                 /\ ttsCache[i].key = synthCalls'[c].key
                 /\ ttsCache[i].value = synthCalls'[c].result]_vars

\* Two calls of one key on two instances were in flight at the same time:
\* each looked the key up while the other had not stored yet (a miss), the
\* upstream service answered them with different bytes, and the key has one
\* entry, which holds the whole answer of one of them.
C20_Witness ==
  /\ scenario = "race"
  /\ synthCalls[1].pc = "returned" /\ synthCalls[2].pc = "returned"
  /\ synthCalls[1].posted /\ synthCalls[2].posted
  /\ synthCalls[1].key = synthCalls[2].key
  /\ synthCalls[1].instance # synthCalls[2].instance
  /\ synthCalls[1].text # synthCalls[2].text
  /\ synthCalls[1].result # synthCalls[2].result
  /\ Len(ttsCache) = 1
  /\ ttsCache[1].value = synthCalls[2].result

\* C21: no provider resolves with empty audio: a call of AzureTTS.synth or
\* HttpCoquiTTS.synth that returns, with the body of the upstream response
\* or with a cached entry, returns at least one byte.
C21_NoEmptyAudio ==
  /\ engineCall.pc = "returned" => ~IsEmpty(engineCall.result)
  /\ \A c \in ProviderSlots :
       synthCalls[c].pc = "returned" => ~IsEmpty(synthCalls[c].result)

\* The part of C21 that fails on HttpCoquiTTS alone: an empty body is
\* stored, and a later call of the same key returns it from the cache.
EmptyEntryNeverServed ==
  \A c \in ProviderSlots :
    (synthCalls[c].pc = "returned" /\ ~synthCalls[c].posted) =>
      ~IsEmpty(synthCalls[c].result)

\* C22: a call of AzureTTS.synth with a locale that has no entry in
\* VOICE_MAP is rejected, and no upstream request is made for it.
C22_UnsupportedLocale ==
  (tts.class = "AzureTTS" /\ engineCall.pc # "idle"
     /\ engineCall.locale \notin DOMAIN VOICE_MAP) =>
    /\ engineCall.pc = "rejected"
    /\ ~engineCall.posted

\* Two strings that differ at most in the case of their letters.
SameIgnoringCase(a, b) ==
  /\ Len(a) = Len(b)
  /\ \A i \in 1..Len(a) :
       \/ a[i] = b[i]
       \/ \E k \in 1..Len(UpperCase) :
            {a[i], b[i]} = {UpperCase[k], LowerCase[k]}

\* The class a value of TTS_PROVIDER names, whatever the case of its
\* letters; "none" if it names no class.
ClassNamed(value) ==
  IF SameIgnoringCase(value, Azure) THEN "AzureTTS"
  ELSE IF SameIgnoringCase(value, Coqui) THEN "CoquiLocalTTS"
  ELSE IF SameIgnoringCase(value, CoquiHttp) THEN "HttpCoquiTTS"
  ELSE "none"

\* makeTTS() made no provider and threw the error that names named.
Unsupported(made, named) ==
  /\ made.kind = "threw"
  /\ made.class = "none"
  /\ made.error.message = <<"Unsupported TTS provider: ">> \o named

\* What makeTTS() made in environment e is what the value of TTS_PROVIDER
\* selects, an unset value selecting AzureTTS.
Selected(e, made) ==
  IF ~e.TTS_PROVIDER.set THEN made.class = "AzureTTS"
  ELSE IF ClassNamed(e.TTS_PROVIDER.value) # "none"
    THEN made.class = ClassNamed(e.TTS_PROVIDER.value)
  ELSE Unsupported(made, e.TTS_PROVIDER.value)

\* The same, an empty value selecting AzureTTS too and the error naming
\* the value with its letters in lower case.
SelectedOrDefault(e, made) ==
  IF Falsy(e.TTS_PROVIDER) THEN made.class = "AzureTTS"
  ELSE IF ClassNamed(e.TTS_PROVIDER.value) # "none"
    THEN made.class = ClassNamed(e.TTS_PROVIDER.value)
  ELSE LET named == Tail(made.error.message)
       IN /\ Unsupported(made, named)
          /\ SameIgnoringCase(named, e.TTS_PROVIDER.value)
          /\ \A i \in 1..Len(named), k \in 1..Len(UpperCase) :
               named[i] # UpperCase[k]

\* C23: what makeTTS() gives is determined by TTS_PROVIDER as it is when
\* makeTTS() runs, whatever the case of its letters: azure selects AzureTTS,
\* coqui CoquiLocalTTS, coqui_http HttpCoquiTTS, and no value AzureTTS; with
\* every other value makeTTS() throws an error that names that value and no
\* provider is made.
C23_ProviderSelection ==
  [][(tts.kind = "none" /\ tts'.kind # "none") => Selected(env, tts')]_vars

\* C23 as the code has it: an empty TTS_PROVIDER selects AzureTTS as an
\* unset one does, and the error for a value that names no class names the
\* value with its letters in lower case.
C23_ProviderSelectionOrDefault ==
  [][(tts.kind = "none" /\ tts'.kind # "none") =>
       SelectedOrDefault(env, tts')]_vars

\* TTS_PROVIDER is set to the empty string and makeTTS() made an AzureTTS.
C23_Witness ==
  /\ env.TTS_PROVIDER = Setting(<< >>)
  /\ tts.kind = "instance"
  /\ tts.class = "AzureTTS"

\* The settings the constructor of a class requires.
Required(class) ==
  IF class = "AzureTTS" THEN {"TTS_KEY", "AZURE_REGION"}
  ELSE IF class = "HttpCoquiTTS" THEN {"TTS_HTTP_URL"}
  ELSE {}

\* An error about a setting of the environment.
IsConfigError(error) ==
  /\ error.message # << >>
  /\ error.message[1] \in {"TTS_KEY", "AZURE_REGION", "TTS_HTTP_URL"}

\* C24: configuration errors are raised when a provider is constructed and
\* never when synth is called: constructing AzureTTS or HttpCoquiTTS throws
\* exactly when a setting the class requires is absent (or empty), with an
\* error that names a missing setting; when it throws no request has been or
\* is made; and no call of synth on a provider that was constructed is
\* rejected with an error about a setting, even when the settings are
\* removed from the environment after the construction.
C24_ConfigErrorsAtConstruction ==
  /\ [][(tts.kind = "none" /\ tts'.kind # "none" /\ tts'.class # "none") =>
          LET missing == {n \in Required(tts'.class) : Falsy(env[n])}
          IN IF missing = {} THEN tts'.kind = "instance"
             ELSE /\ tts'.kind = "threw"
                  /\ IsConfigError(tts'.error)
                  /\ tts'.error.message[1] \in missing]_vars
  /\ [](tts.kind = "threw" =>
          /\ ~engineCall.posted
          /\ \A c \in ProviderSlots : ~synthCalls[c].posted)
  /\ [](/\ engineCall.pc = "rejected" => ~IsConfigError(engineCall.result)
        /\ \A c \in ProviderSlots :
             synthCalls[c].pc = "rejected" => ~IsConfigError(synthCalls[c].result))

\* TTS_PROVIDER selects AzureTTS, TTS_KEY is set and AZURE_REGION is not:
\* the constructor threw the error that names AZURE_REGION.
C24_Witness ==
  /\ tts.kind = "threw"
  /\ tts.class = "AzureTTS"
  /\ ~Falsy(env.TTS_KEY)
  /\ ~env.AZURE_REGION.set
  /\ tts.error.message[1] = "AZURE_REGION"
  /\ ~engineCall.posted

\* C25: an error thrown while the provider is constructed (makeTTS() throws)
\* is not caught by speak(): it is never passed to the invocation's onError
\* callback.
C25_ConstructionErrorsNotCaught ==
  (harness.api = "function" /\ failure = "config") => onErrorArgs = << >>

\* C26: sanitizeForTTS is idempotent: applied to what it returned for a
\* text, it returns the same string; and it returns the empty string for the
\* empty string.
C26_SanitizeIdempotent ==
  /\ (rawText = << >> /\ outputs # << >>) => outputs[1] = << >>
  /\ Len(outputs) = 2 => outputs[2] = outputs[1]

\* The substrings of text that match the placeholder pattern, in order.
Placeholders(text) == ExtractPlaceholders(text, 1, 0).map

\* The strings list[n], list[n + 1], ... occur in text in this order, one
\* after the other, at or after index i.
RECURSIVE InOrder(_, _, _, _)
InOrder(text, list, n, i) ==
  IF n > Len(list) THEN TRUE
  ELSE LET j == IndexOfSeq(text, list[n], i)
       IN j # 0 /\ InOrder(text, list, n + 1, j + Len(list[n]))

\* C27: placeholders survive sanitization: the substrings of the text that
\* match the placeholder pattern occur unmodified in what sanitizeForTTS
\* returns, in the same order, and the result has as many placeholders as
\* the text.
C27_PlaceholdersSurvive ==
  outputs # << >> =>
    /\ InOrder(outputs[1], Placeholders(rawText), 1, 1)
    /\ Len(Placeholders(outputs[1])) = Len(Placeholders(rawText))

\* The whitespace characters of a text: space, tab, newline and the Unicode
\* space variants.
InputWhiteSpace == {" ", "\t", "\n"} \cup UnicodeSpaces

\* A text of letters and whitespace only.
Plain(text) == \A i \in 1..Len(text) : text[i] \in {"a"} \cup InputWhiteSpace

\* C28: whitespace normalization: in what sanitizeForTTS returns for a text
\* of words and whitespace, every run of whitespace between two words is
\* exactly one space, so the words are those of the text, and whatever the
\* text, the result neither starts nor ends with whitespace.
C28_WhitespaceNormalized ==
  outputs # << >> =>
    /\ Plain(rawText) =>
         outputs[1] = Trim(CollapseRuns(rawText, InputWhiteSpace))
    /\ outputs[1] # << >> =>
         /\ Head(outputs[1]) \notin InputWhiteSpace
         /\ outputs[1][Len(outputs[1])] \notin InputWhiteSpace

\* C29: the text in the voice element of the document AzureTTS.synth posts
\* is the sanitized text, XML-escaped: escapeXml(sanitizeForTTS(text)).
C29_SsmlIsSanitized ==
  (tts.class = "AzureTTS" /\ engineCall.posted) =>
    engineCall.data.content = EscapeXml(SanitizeForTTS(engineCall.text))

\* The error is one Error whose message is 'TTS synthesis failed: ' followed
\* by the rendering of what was caught, which is itself no such error.
WrappedError(error) ==
  /\ error.name = "Error"
  /\ Len(error.message) > 1
  /\ error.message[1] = "TTS synthesis failed: "
  /\ error.message[2] \in {"AxiosError", "Error"}
  /\ \A i \in 2..Len(error.message) : error.message[i] # "TTS synthesis failed: "

\* C30: every rejection of AzureTTS.synth or HttpCoquiTTS.synth that follows
\* a transport failure, a response with a status outside 2xx or a response
\* that is not binary is one wrapped error whose message starts with
\* 'TTS synthesis failed'; the error of axios itself is never the rejection.
C30_UpstreamFailuresWrapped ==
  /\ \A c \in DOMAIN synthCalls :
       synthCalls[c].pc = "rejected" => WrappedError(synthCalls[c].result)
  /\ (tts.class = "AzureTTS" /\ engineCall.pc = "rejected") =>
       WrappedError(engineCall.result)

\* An HttpCoquiTTS call was rejected after a response that is no
\* ArrayBuffer, and a later one after axios rejected.
C30_Witness ==
  /\ tts.class = "HttpCoquiTTS"
  /\ synthCalls[1].pc = "rejected" /\ synthCalls[1].response \notin {"ArrayBuffer", "error"}
  /\ synthCalls[2].pc = "rejected" /\ synthCalls[2].response = "error"

\* An AzureTTS call was rejected because the status was outside 2xx.
C30_WitnessAzure ==
  /\ tts.class = "AzureTTS"
  /\ engineCall.pc = "rejected"
  /\ engineCall.result = SynthesisFailed(AxiosError("status"))

\* C31: an invocation of speak() reaches one terminal outcome: at most one
\* of onDone and onError is invoked, and at most once, whatever the
\* rewriter, the provider, the sink and the callbacks do (an onDone that
\* throws included).
C31_OneTerminalOutcome ==
  harness.api = "function" => onDoneCalls + Len(onErrorArgs) <= 1

\* What the code does instead: each callback is invoked at most once, and
\* both are invoked exactly when onDone threw.
BothOnlyIfOnDoneThrows ==
  harness.api = "function" =>
    /\ onDoneCalls <= 1
    /\ Len(onErrorArgs) <= 1
    /\ (onDoneCalls = 1 /\ Len(onErrorArgs) = 1) <=> onDoneThrew

\* C32: speak() invokes onDone only after all ceil(L/C) chunks have been
\* delivered to the sink and acknowledged by it, and once onDone or onError
\* has been invoked no sink delivery happens for the invocation any more.
C32_DoneAfterAllChunks ==
  /\ [](harness.api = "function" /\ onDoneCalls > 0 =>
         /\ audioLen >= 0
         /\ inflight = 0
         /\ acked = NumChunks(audioLen)
         /\ Len(sinkLog) = acked
         /\ Tiles(sinkLog, acked, audioLen))
  /\ [][harness.api = "function" /\ (onDoneCalls > 0 \/ onErrorArgs # << >>) =>
          sinkLog' = sinkLog /\ acked' = acked /\ inflight' = inflight]_vars

\* onDone was invoked after the three chunks of a buffer were acknowledged.
C32_Witness ==
  /\ harness.api = "function"
  /\ onDoneCalls = 1
  /\ audioLen = 2 * CHUNK_SIZE_BYTES + 1
  /\ acked = 3
  /\ pc = "settled"

\* onError was invoked for a sink failure with chunks of the buffer left.
C32_WitnessError ==
  /\ harness.api = "function"
  /\ failure = "sink"
  /\ Len(onErrorArgs) = 1
  /\ Len(sinkLog) < NumChunks(audioLen)
  /\ pc = "settled"

\* The invocation c of Speaker.speak returned with every chunk of its
\* buffer acknowledged by the sink.
DeliveredAll(c) ==
  /\ c.pc = "returned"
  /\ c.failure = "none"
  /\ c.audioLen >= 0
  /\ c.acked = NumChunks(c.audioLen)

\* C33: class Speaker: an invocation that delivers all its chunks notifies
\* completion exactly once after the last chunk was acknowledged, through
\* the request's onDone and through the listener registered with onEnd, and
\* the request's onStart is invoked before the provider is called.
C33_SpeakerCompletion ==
  harness.api = "class" =>
    \A i \in Calls :
      /\ DeliveredAll(calls[i]) =>
           /\ calls[i].onDoneCalls = 1
           /\ speaker.onEndCallback => calls[i].onEndCalls = 1
      /\ calls[i].synthArgs # << >> => calls[i].onStartCalls > 0

\* What the code does instead: Speaker.speak never invokes a callback of
\* the request, and the listener registered with onEnd is never invoked.
SpeakerNeverNotifies ==
  harness.api = "class" =>
    \A i \in Calls :
      calls[i].onStartCalls = 0 /\ calls[i].onDoneCalls = 0 /\ calls[i].onEndCalls = 0

\* The entity of a reserved character; every other character stands for
\* itself.
EntityOf(c) ==
  CASE c = "&" -> Amp
    [] c = "<" -> Lt
    [] c = ">" -> Gt
    [] c = "\"" -> Quot
    [] c = "'" -> Apos
    [] OTHER -> <<c>>

\* The text with each of its characters replaced once by EntityOf.
RECURSIVE EscapedOnce(_)
EscapedOnce(text) ==
  IF text = << >> THEN << >>
  ELSE EntityOf(Head(text)) \o EscapedOnce(Tail(text))

\* An entity starts at index i of str.
EntityAt(str, i) ==
  \E entity \in {Amp, Lt, Gt, Quot, Apos} :
    /\ i + Len(entity) - 1 <= Len(str)
    /\ SubSeq(str, i, i + Len(entity) - 1) = entity

\* C34: escapeXml replaces each of & < > " ' by its entity exactly once
\* (the ampersand of an inserted entity is not escaped again) and leaves
\* every other character as it is; its result holds no < > " ' and no &
\* that does not start one of the five entities.
C34_EscapeXml ==
  escaped # << >> =>
    LET result == escaped[1]
    IN /\ result = EscapedOnce(unsafeText)
       /\ \A i \in 1..Len(result) :
            /\ result[i] \notin {"<", ">", "\"", "'"}
            /\ result[i] = "&" => EntityAt(result, i)

\* escapeXml was applied to a text of four reserved characters, the
\* ampersand among them, and each was replaced by its entity.
C34_Witness ==
  /\ unsafeText = <<"<", "&", "'", ">">>
  /\ escaped = << Lt \o Amp \o Apos \o Gt >>

\* C35: if every call of the rewriter, the provider and the sink settles
\* and the timers fire, an invocation of speak() settles in the end and
\* its promise resolves; after stop() was called during streaming no
\* further chunk is waited for: the step that follows the race or the
\* pending sink call hands nothing to the sink, and a race ends the
\* invocation.
C35_EventuallySettles ==
  /\ (promise = "pending") ~> (pc = "settled" /\ promise = "resolved")
  /\ [][(stopCalled /\ pc \in {"race", "sink"}) =>
          /\ sinkLog' = sinkLog
          /\ (pc = "race" /\ pc' # pc) => pc' = "settled"]_vars

\* What the code does instead: the invocation settles in the end, and its
\* promise is resolved unless onError threw.
SettlesEitherWay ==
  /\ (promise = "pending") ~> (pc = "settled" /\ promise \in {"resolved", "rejected"})
  /\ [](promise = "rejected" => onErrorThrew)
  /\ [][(stopCalled /\ pc \in {"race", "sink"}) =>
          /\ sinkLog' = sinkLog
          /\ (pc = "race" /\ pc' # pc) => pc' = "settled"]_vars

\* The invocation c of Speaker.speak has started and has not settled.
Unsettled(c) == c.pc \notin {"idle", "returned", "thrown"}

\* C36: class Speaker: isSpeakingNow() is true exactly in the states in
\* which some invocation of the instance has started and has not settled,
\* after any sequence and interleaving of speak() and stop() calls.
C36_IsSpeakingNow ==
  harness.api = "class" =>
    (speaker.isSpeaking <=> \E i \in Calls : Unsettled(calls[i]))

\* What the code does instead: isSpeakingNow() is true only with an
\* invocation past its delay and not settled, but not whenever there is one.
SpeakingOnlyInFlight ==
  harness.api = "class" =>
    (speaker.isSpeaking => \E i \in Calls : InFlight(calls[i]))

\* The closure c is that of an invocation that was not stopped by its
\* caller, whose provider and sink did not fail and whose onDone did not
\* throw, and that is over.
Undisturbed(c) ==
  /\ c.pc = "settled"
  /\ ~c.stopCalled
  /\ c.failure = "none"

\* C37: invocations of speak() are independent: a step of one invocation
\* (a stop() of it, a failure of its provider or sink, or any other)
\* changes nothing in the closure of the other, and an invocation that is
\* not stopped and does not fail itself delivers all its chunks in order to
\* its own sink and ends with its own onDone, whatever happens to the other.
C37_Independent ==
  /\ [](harness.api = "pair" =>
         \A j \in Invocations :
           Undisturbed(invocations[j]) =>
             LET c == invocations[j]
             IN /\ c.acked = NumChunks(c.audioLen)
                /\ Len(c.sinkLog) = c.acked
                /\ Tiles(c.sinkLog, c.acked, c.audioLen)
                /\ c.onDoneCalls = 1
                /\ c.onErrorArgs = << >>
                /\ c.promise = "resolved")
  /\ [][harness.api = "pair" =>
          \E i \in Invocations :
            \A j \in Invocations \ {i} :
              [invocations'[j] EXCEPT !.peerEvents = {}]
                = [invocations[j] EXCEPT !.peerEvents = {}]]_vars

\* B delivered its two chunks and was notified through its onDone, while A
\* was stopped and A's provider or sink failed during B's processing.
C37_Witness ==
  /\ harness.api = "pair"
  /\ Undisturbed(invocations["B"])
  /\ invocations["B"].peerEvents = {"stop", "failure"}
  /\ invocations["B"].acked = 2
  /\ invocations["B"].onDoneCalls = 1
  /\ invocations["A"].pc = "settled"
  /\ invocations["A"].onDoneCalls = 0

\* pos is a position of the streaming loop over a buffer of length len.
IsPosition(pos, len) ==
  /\ 0 <= pos /\ pos <= len
  /\ pos % CHUNK_SIZE_BYTES = 0 \/ pos = len

\* A step leads from position pos with k chunks acknowledged to pos2 with
\* k2, log being the chunks given to the sink: the position changes only
\* together with the acknowledgement of a chunk, and then by the length of
\* that chunk.
Advances(pos, k, pos2, k2, log) ==
  /\ pos2 >= pos
  /\ k2 \in {k, k + 1}
  /\ k2 = k => pos2 = pos
  /\ k2 = k + 1 => /\ k2 <= Len(log)
                   /\ pos2 = pos + Size(log[k2])
                   /\ log[k2].from = pos

\* C38: the position of streamAudio and of the loop of Speaker.speak is
\* between 0 and L and is a multiple of C or L itself; it only grows, by
\* the length of the chunk whose sink call has just succeeded; it stays as
\* it is when the sink rejects or the stop signal wins the race.
C38_StreamPosition ==
  /\ [](harness.api = "function" =>
         IF audioLen < 0 THEN position = 0 ELSE IsPosition(position, audioLen))
  /\ [](harness.api = "class" =>
         \A i \in Calls :
           IF calls[i].audioLen < 0 THEN calls[i].position = 0
           ELSE IsPosition(calls[i].position, calls[i].audioLen))
  /\ [][harness.api = "function" =>
          Advances(position, acked, position', acked', sinkLog')]_vars
  /\ [][harness.api = "class" =>
          \A i \in Calls :
            Advances(calls[i].position, calls[i].acked,
                     calls'[i].position, calls'[i].acked, calls'[i].sinkLog)]_vars
  /\ [][(harness.api = "function" /\ pc \in {"race", "sink"}
           /\ pc' \in {"rejected", "settled"} /\ acked' = acked) =>
          position' = position]_vars

\* streamAudio has delivered the last, one-byte chunk of a buffer of 2C+1
\* bytes: the position is L.
C38_Witness ==
  /\ harness.api = "function"
  /\ audioLen = 2 * CHUNK_SIZE_BYTES + 1
  /\ acked = 3
  /\ position = audioLen

\* The stop signal won the race after one chunk of three: the position is C.
C38_WitnessStop ==
  /\ harness.api = "function"
  /\ stopCalled /\ pc = "settled"
  /\ audioLen = 3 * CHUNK_SIZE_BYTES
  /\ position = CHUNK_SIZE_BYTES

\* The sink of a Speaker invocation rejected the second chunk: the position
\* is C.
C38_WitnessClass ==
  /\ harness.api = "class"
  /\ calls[1].failure = "sink"
  /\ Len(calls[1].sinkLog) = 2
  /\ calls[1].position = CHUNK_SIZE_BYTES

====
